---- MODULE Spec2Model ----
(***************************************************************************)
(* Model of the user-works paginator of douyin_user_phaser.py:             *)
(* get_all_user_works, its primary strategy _try_xhr_pagination and its    *)
(* fallback strategy _try_api_approach, driven by an environment that      *)
(* answers every list fetch with an arbitrary response.                    *)
(* and of the single-item resolver of douyin_phaser.py: the quality        *)
(* selector _parse_video_detail, the note reconciler extract_note_from_api,*)
(* the DOM extractors, get_douyin_media and BrowserPool.get_browser.       *)
(* Each component has its own specification; the variables of the other    *)
(* components stay at their initial values under it.                       *)
(***************************************************************************)
EXTENDS Integers, Sequences, FiniteSets, TLC

\* ------------------------------------------------------------------ bounds
\* aweme ids the platform can return are 1..NumIds
NumIds == 2
\* most items one list response carries
MaxPage == 2
\* largest max_cursor value a response carries
MaxCursor == 2
\* largest caller-supplied max_works
MaxMaxWorks == 1
\* most list fetches the environment answers per strategy
MaxPages == 5
\* longest all_works list of the fallback strategy the environment lets grow
MaxApiWorks == 4
\* most variant descriptors in one bit_rate list
MaxVariants == 3
\* largest width, height and bit_rate a variant descriptor carries
MaxWidth == 2
MaxHeight == 1
MaxBitRate == 1
\* most raw image records in one note
MaxImages == 3
\* most URLs the DOM of one page yields
MaxUrls == 3
\* most <source> elements the DOM of one page yields, and most video ids
MaxSources == 2
MaxVideoIds == 2
\* most variant descriptors and image records in a payload get_douyin_media receives
MaxMediaVariants == 1
MaxMediaImages == 1
\* threads calling BrowserPool.get_browser at the same time
NumThreads == 3
\* requests the user API serves at the same time, the values one cookie
\* takes, and most cookies one request supplies
NumRequests == 2
NumCookieValues == 2
MaxCookies == 1
\* largest content id a URL or a Location header carries
MaxContentIds == 2
\* most responses that arrive during one navigation, and the payloads they carry
MaxResponses == 3
\* most URLs and <source> elements of the page both note strategies are run on
MaxSessionUrls == 1
\* most responses the response handler is called for
MaxHandled == 2
\* requests to the user-works endpoint in one run of the server
MaxCacheRequests == 4
\* get_browser calls of one caller in one run of the process
MaxPoolCalls == 6
NumPayloads == 2

\* ------------------------------------------------------- program constants
MAX_EMPTY == 3
\* the polling loop of the unknown-type path: `range(10)`, wait_for_timeout(500)
MAX_POLLS == 10
POLL_MS == 500

\* ------------------------------------------------------------ Python values
\* Optional values: None is the empty tuple, a present value x is <<x>>.
None == << >>
Some(x) == << x >>
\* a dict is a function from its keys; {} is the function with no key
EmptyDict == [k \in {} |-> ""]
\* an item of aweme_list without aweme_id (item.get("aweme_id") is None or "")
NoId == 0
ItemIds == 0 .. NumIds

\* `if max_works and ...`: None and 0 are both falsy
MaxWorksSet(max_works) == max_works # None /\ max_works[1] # 0

RECURSIVE SeqsUpTo(_, _)
SeqsUpTo(S, n) ==
  IF n = 0 THEN { << >> }
  ELSE LET shorter == SeqsUpTo(S, n - 1)
       IN shorter \cup { Append(s, x) : s \in { t \in shorter : Len(t) = n - 1 }, x \in S }

Items == [aweme_id : ItemIds]
AwemeLists == SeqsUpTo(Items, MaxPage)

\* ------------------------------------------------------- list-fetch results
\* What one list fetch yields, in the shape both strategies read it:
\*   err         the fetch produced nothing usable (null, {_error: ...})
\*   status_code the payload's status_code (0 also stands for "absent")
\*   has_list    the payload has an aweme_list that is not null
\*   aweme_list, has_more, max_cursor  the payload's fields (absent = default)
ErrResp ==
  [err |-> TRUE, status_code |-> 0, has_list |-> FALSE, aweme_list |-> << >>,
   has_more |-> FALSE, max_cursor |-> 0]
StatusResp ==
  [err |-> FALSE, status_code |-> 1, has_list |-> FALSE, aweme_list |-> << >>,
   has_more |-> FALSE, max_cursor |-> 0]
NoListResp ==
  [err |-> FALSE, status_code |-> 0, has_list |-> FALSE, aweme_list |-> << >>,
   has_more |-> TRUE, max_cursor |-> 0]
DataResps ==
  [err : {FALSE}, status_code : {0}, has_list : {TRUE}, aweme_list : AwemeLists,
   has_more : BOOLEAN, max_cursor : 0 .. MaxCursor]
Responses == {ErrResp, StatusResp, NoListResp} \cup DataResps

\* ------------------------------------------------------------ user metadata
\* The author sub-record of an item, as the platform sends it (absent: None).
AuthorRec ==
  [nickname |-> "item-nick", sec_uid |-> "sec", uid |-> "", avatar_urls |-> << "item-avatar" >>]
Authors == {None, Some(AuthorRec)}

\* The user sub-record of the profile API's answer (no answer, no user: None).
UserRec ==
  [nickname |-> "prof-nick", sec_uid |-> "sec", uid |-> "42", avatar_urls |-> << >>,
   signature |-> "bio", aweme_count |-> "7"]
Profiles == {None, Some(UserRec)}

extract_user_info_from_item(author) ==
  IF author = None THEN EmptyDict
  ELSE LET a == author[1]
       IN [k \in {"nickname", "sec_uid", "uid", "avatar"} |->
             CASE k = "nickname" -> a.nickname
               [] k = "sec_uid" -> a.sec_uid
               [] k = "uid" -> a.uid
               [] k = "avatar" -> IF a.avatar_urls # << >> THEN a.avatar_urls[1] ELSE ""]

extract_user_info_from_profile(profile_data) ==
  IF profile_data = None THEN EmptyDict
  ELSE LET u == profile_data[1]
       IN [k \in {"nickname", "sec_uid", "uid", "avatar", "signature", "aweme_count"} |->
             CASE k = "nickname" -> u.nickname
               [] k = "sec_uid" -> u.sec_uid
               [] k = "uid" -> u.uid
               [] k = "avatar" -> IF u.avatar_urls # << >> THEN u.avatar_urls[1] ELSE ""
               [] k = "signature" -> u.signature
               [] k = "aweme_count" -> u.aweme_count]

\* a bug variant of MergeUser: the profile's non-empty values win
MergeUserProfileFirst(profile_info, user) ==
  LET kept == { k \in DOMAIN profile_info : profile_info[k] # "" }
  IN [k \in (DOMAIN user) \cup kept |->
        IF k \in kept THEN profile_info[k] ELSE user[k]]

\* {**profile_info, **{k: v for k, v in result["user"].items() if v}}
MergeUser(profile_info, user) ==
  LET kept == { k \in DOMAIN user : user[k] # "" }
  IN [k \in (DOMAIN profile_info) \cup kept |->
        IF k \in kept THEN user[k] ELSE profile_info[k]]

\* `if profile_info: result["user"] = ...`
MergedResult(res, profile_info) ==
  IF profile_info # EmptyDict
  THEN [res EXCEPT !.user = MergeUser(profile_info, res.user)]
  ELSE res

\* ------------------------------------------------------------------- works
parse_aweme_item(item) == [aweme_id |-> item.aweme_id]

\* all_works[:max_works]
Prefix(s, n) == IF Len(s) <= n THEN s ELSE SubSeq(s, 1, n)

IdsOf(works) == { works[i].aweme_id : i \in 1 .. Len(works) }
NoDuplicateIds(works) ==
  \A i, j \in 1 .. Len(works) : works[i].aweme_id = works[j].aweme_id => i = j

\* --------------------------------------------------------------------- state
VARIABLES
  pc,            \* where get_all_user_works stands
  max_works,     \* the caller's max_works (None or a number)
  profile_info,  \* get_all_user_works: profile_info
  result,        \* get_all_user_works: result (None or the result dict)
  all_works,     \* the running strategy's all_works
  seen_ids,      \* _try_xhr_pagination: seen_ids
  user_info,     \* the running strategy's user_info
  max_cursor,    \* the running strategy's max_cursor
  has_more,      \* the running strategy's has_more
  empty_pages,   \* _try_xhr_pagination: empty_pages
  xhr_page_num,  \* _try_xhr_pagination: page_num, the list fetches it issued
  api_page_num,  \* _try_api_approach: page_num, the list fetches it issued
  primary,       \* history: idle, running, returned or raised
  xhr_yield,     \* history: number of works the primary strategy returned
  item_info,     \* history: the user dict of the returned result before the merge
  stop,          \* history: why the running strategy left its loop
  cut,           \* history: all_works[:max_works] dropped at least one work
  stall,         \* history: latest consecutive responses with no new id and no cursor advance
  nonAdv,        \* history: latest consecutive non-advancing responses after a first item
  got_cursor,    \* history: latest non-zero max_cursor a non-error primary response carried (0: none)
  onlyEmptyMore, \* history: every response so far had an empty list and has_more true
  sawNoMore,     \* history: the primary received a non-error response with has_more false
  scen           \* history: how many leading primary pages match 2 new, 2 new, 0 new / T, T, F

codeVars == << pc, max_works, profile_info, result, all_works, seen_ids, user_info,
               max_cursor, has_more, empty_pages, xhr_page_num, api_page_num >>
histVars == << primary, xhr_yield, item_info, stop, cut, stall, nonAdv, got_cursor,
               onlyEmptyMore, sawNoMore, scen >>

\* ------------------------------------------- state of the single-item side
VARIABLES
  sel_pc,        \* _parse_video_detail: "call" before it ran, "done" after
  detail,        \* _parse_video_detail: its argument (None or the detail dict)
  video_result,  \* _parse_video_detail: its return value
  note_pc,       \* extract_note_from_api: "call" before its loop ran, "done" after
  images,        \* extract_note_from_api: detail["images"]
  items,         \* extract_note_from_api: items
  dom_pc,        \* extract_images_from_dom: "call" before it ran, "done" after
  all_urls,      \* extract_images_from_dom: all_urls in the order the set is iterated
  unique_images, \* extract_images_from_dom: its return value
  m_pc,          \* where get_douyin_media stands
  content_type,  \* get_douyin_media: content_type ("unknown" for None)
  media_result,  \* get_douyin_media: result (None or the result dict)
  media_ret,     \* how get_douyin_media ended: "pending", "value" or "raised"
  context_open,  \* the context of this call is open (created and not closed)
  detail_calls,  \* number of _call_detail_api calls of this resolution
  dom_images,    \* get_douyin_media: dom_images
  dom_videos,    \* get_douyin_media: dom_videos
  intercept,     \* history: "none", or how the interception ended: "result", "no_result"
  lacking,       \* history: the intercepted payload had no aweme_detail or no video.bit_rate
  direct,        \* history: "none", or what the direct request gave: "playable", "nothing"
  via,           \* history: the exit path: "none", "video", "note_api", "note_dom", "unknown"
  cls_lock,      \* BrowserPool._lock (0 for None, else the lock's number)
  cls_browser,   \* BrowserPool._browser (0 for None, else the browser's number)
  held,          \* for each lock, the thread inside its `with` block (0: free)
  locks_made,    \* number of threading.Lock() objects created
  launched,      \* number of browsers launched
  t_pc,          \* for each thread, where its get_browser call stands
  t_lock,        \* for each thread, the lock _get_lock returned to it
  t_got          \* for each thread, the browser get_browser returned (0: none yet)

\* ------------------------------------------- state of the request side
VARIABLES
  rq_pc,         \* for each request, where its _try_xhr_pagination call stands
  rq_cookies,    \* for each request, the cookies argument of its call
  rq_ctx,        \* for each request, the context it holds (0: none yet)
  contexts,      \* the contexts of the shared browser, in creation order
  sent_cookies,  \* for each request, the cookies its latest list fetch carried
  api_pc,         \* the API handler `root`: "request" before it ran, "responded" after
  api_req,        \* the request: endpoint and query parameters
  api_extraction, \* how the extraction of this request ended ("not_run" if it never ran)
  api_resp,       \* the HTTP response of the request
  rs_pc,         \* _resolve_short_url: "call" before it ran, "done" after
  rs_url,        \* _resolve_short_url: its argument
  rs_net,        \* history: what the network did during the call (None: not asked)
  rs_ret,        \* _resolve_short_url: its return value
  rs_outcome,    \* how the call ended: "pending", "returned" or "raised"
  http_requests, \* number of HTTP requests the call issued
  w_pc,     \* the `with page.expect_response` block: "register", "goto", "navigating", "exit", "done"
  waiter,   \* the one-shot wait: "unregistered", "pending", "resolved", "timed_out", "cancelled"
  w_value,  \* the response the wait was resolved with
  arrived,  \* the responses that arrived since navigation started, in order
  w_result, \* how the block ended: "pending", "value" or "raised"
  vdom_pc,       \* extract_videos_from_dom: "call" before it ran, "done" after
  page_sources,  \* the src of every <source> of the page, in page order
  unique_videos, \* extract_videos_from_dom: its return value
  eq_pc,       \* for each of the two strategies run on one note page, "call" or "done"
  session,     \* what the session does for that page: the detail request and the DOM
  note_run,    \* the result of the note branch of get_douyin_media
  unknown_run, \* the result of the /note/ branch of the unknown-type path
  p_pc,        \* the unknown-type path: "goto", "poll", "after", "done"
  p_final,     \* what page.url holds after the navigation
  found_data,  \* the slot the response handler fills (None: no URL yet)
  poll_i,      \* iterations of the polling loop begun
  waited_ms,   \* milliseconds spent in page.wait_for_timeout of the loop
  poll_calls,  \* number of _call_detail_api calls of the path
  poll_result, \* the result of the path
  f_slot,      \* found_data, the slot the response handler fills
  handled,   \* number of responses the handler was called for
  last_resp, \* history: the latest response the handler was called for
  ord_pc,     \* position of the extraction over a page
  dom_srcs,   \* the src and background-image URLs in the order the DOM holds them
  iter_order, \* the order in which the set all_urls was iterated
  ord_images, \* the list extract_images_from_dom returned
  cookie_cache, \* _cookie_cache: per cookie argument, the cached list if the key is present
  load_calls,   \* per cookie argument, how often load_cookies was invoked
  load_returns, \* per cookie argument, how often load_cookies returned
  file_content, \* what the file cookies.json holds now (0: it is empty)
  served,       \* user-works requests that reached _get_cookies
  last_arg,     \* the cookie argument of the last request
  last_got,     \* what _get_cookies gave the last request (None: it raised)
  last_cached,  \* the cache entry of last_arg when the last request arrived
  bp_lock,       \* BrowserPool._lock exists
  bp_playwright, \* BrowserPool._playwright (0: None, else the launch that started it)
  bp_browser,    \* BrowserPool._browser (0: None, else the launch that made it)
  bp_connected,  \* the browser of the last launch is connected
  bp_launched,   \* Chromium launches so far
  bp_closed,     \* the browsers that were closed or lost their connection
  bp_calls,      \* get_browser calls so far
  bp_got,        \* the (playwright, browser) pair the last get_browser call returned
  bp_op,         \* the last thing that happened to the pool
  bp_swallowed   \* exceptions the last shutdown swallowed

selVars == << sel_pc, detail, video_result >>
noteVars == << note_pc, images, items >>
domVars == << dom_pc, all_urls, unique_images >>
mediaVars == << m_pc, content_type, media_result, media_ret, context_open, detail_calls,
                dom_images, dom_videos, intercept, lacking, direct, via >>
poolVars == << cls_lock, cls_browser, held, locks_made, launched, t_pc, t_lock, t_got >>
cookieVars == << rq_pc, rq_cookies, rq_ctx, contexts, sent_cookies >>
envVars == << api_pc, api_req, api_extraction, api_resp >>
resolveVars == << rs_pc, rs_url, rs_net, rs_ret, rs_outcome, http_requests >>
waitVars == << w_pc, waiter, w_value, arrived, w_result >>
vdomVars == << vdom_pc, page_sources, unique_videos >>
equivVars == << eq_pc, session, note_run, unknown_run >>
pollVars == << p_pc, p_final, found_data, poll_i, waited_ms, poll_calls, poll_result >>
listenVars == << f_slot, handled, last_resp >>
orderVars == << ord_pc, dom_srcs, iter_order, ord_images >>
cacheVars == << cookie_cache, load_calls, load_returns, file_content, served, last_arg, last_got, last_cached >>
lifeVars == << bp_lock, bp_playwright, bp_browser, bp_connected, bp_launched, bp_closed, bp_calls, bp_got, bp_op, bp_swallowed >>
moreVars == << cookieVars, envVars, resolveVars, waitVars, vdomVars, equivVars, pollVars, listenVars, orderVars, cacheVars, lifeVars >>
itemVars == << selVars, noteVars, domVars, mediaVars, poolVars, moreVars >>
userVars == << codeVars, histVars >>
vars == << userVars, itemVars >>
oldVars == << userVars, selVars, noteVars, domVars, mediaVars, poolVars >>
notCookie == << oldVars, envVars, resolveVars, waitVars, vdomVars, equivVars, pollVars, listenVars, orderVars, cacheVars, lifeVars >>
notEnv == << oldVars, cookieVars, resolveVars, waitVars, vdomVars, equivVars, pollVars, listenVars, orderVars, cacheVars, lifeVars >>
notResolve == << oldVars, cookieVars, envVars, waitVars, vdomVars, equivVars, pollVars, listenVars, orderVars, cacheVars, lifeVars >>
notWait == << oldVars, cookieVars, envVars, resolveVars, vdomVars, equivVars, pollVars, listenVars, orderVars, cacheVars, lifeVars >>
notVdom == << oldVars, cookieVars, envVars, resolveVars, waitVars, equivVars, pollVars, listenVars, orderVars, cacheVars, lifeVars >>
notEquiv == << oldVars, cookieVars, envVars, resolveVars, waitVars, vdomVars, pollVars, listenVars, orderVars, cacheVars, lifeVars >>
notPoll == << oldVars, cookieVars, envVars, resolveVars, waitVars, vdomVars, equivVars, listenVars, orderVars, cacheVars, lifeVars >>
notListen == << oldVars, cookieVars, envVars, resolveVars, waitVars, vdomVars, equivVars, pollVars, orderVars, cacheVars, lifeVars >>
notOrder == << oldVars, cookieVars, envVars, resolveVars, waitVars, vdomVars, equivVars, pollVars, listenVars, cacheVars, lifeVars >>
notCache == << oldVars, cookieVars, envVars, resolveVars, waitVars, vdomVars, equivVars, pollVars, listenVars, orderVars, lifeVars >>
notLife == << oldVars, cookieVars, envVars, resolveVars, waitVars, vdomVars, equivVars, pollVars, listenVars, orderVars, cacheVars >>

\* a component that is not running under the specification at hand
SelIdle == sel_pc = "off" /\ detail = None /\ video_result = None
NoteIdle == note_pc = "off" /\ images = << >> /\ items = << >>
DomIdle == dom_pc = "off" /\ all_urls = << >> /\ unique_images = << >>
MediaIdle ==
  /\ m_pc = "off" /\ content_type = "unknown" /\ media_result = None
  /\ media_ret = "pending" /\ context_open = FALSE /\ detail_calls = 0
  /\ dom_images = << >> /\ dom_videos = << >>
  /\ intercept = "none" /\ direct = "none" /\ via = "none" /\ lacking = FALSE
PoolIdle ==
  /\ cls_lock = 0 /\ cls_browser = 0 /\ held = << >> /\ locks_made = 0 /\ launched = 0
  /\ t_pc = << >> /\ t_lock = << >> /\ t_got = << >>
CookieIdle ==
  /\ rq_pc = << >> /\ rq_cookies = << >> /\ rq_ctx = << >>
  /\ contexts = << >> /\ sent_cookies = << >>
EnvIdle ==
  api_pc = "off" /\ api_req = None /\ api_extraction = "not_run" /\ api_resp = None
ResolveIdle ==
  rs_pc = "off" /\ rs_url = None /\ rs_net = None /\ rs_ret = None /\ rs_outcome = "pending" /\ http_requests = 0
WaitIdle ==
  w_pc = "off" /\ waiter = "unregistered" /\ w_value = None /\ arrived = << >> /\ w_result = "pending"
VdomIdle ==
  vdom_pc = "off" /\ page_sources = << >> /\ unique_videos = << >>
EquivIdle ==
  eq_pc = << >> /\ session = None /\ note_run = None /\ unknown_run = None
PollIdle ==
  p_pc = "off" /\ p_final = "other" /\ found_data = None /\ poll_i = 0 /\ waited_ms = 0 /\ poll_calls = 0 /\ poll_result = None
ListenIdle ==
  f_slot = None /\ handled = 0 /\ last_resp = None
OrderIdle ==
  ord_pc = "idle" /\ dom_srcs = << >> /\ iter_order = << >> /\ ord_images = << >>
CacheIdle ==
  cookie_cache = [a \in {} |-> None] /\ load_calls = 0 /\ load_returns = 0 /\ file_content = 0 /\ served = 0 /\ last_arg = "absent" /\ last_got = None /\ last_cached = None
LifeIdle ==
  bp_lock = FALSE /\ bp_playwright = 0 /\ bp_browser = 0 /\ bp_connected = FALSE /\ bp_launched = 0 /\ bp_closed = {} /\ bp_calls = 0 /\ bp_got = << 0, 0 >> /\ bp_op = "none" /\ bp_swallowed = 0
MoreIdle == CookieIdle /\ EnvIdle /\ ResolveIdle /\ WaitIdle /\ VdomIdle /\ EquivIdle /\ PollIdle /\ ListenIdle /\ OrderIdle /\ CacheIdle /\ LifeIdle

MaxWorksInputs == {None} \cup { Some(m) : m \in 0 .. MaxMaxWorks }

UserInit ==
  /\ pc = "start"
  /\ max_works \in MaxWorksInputs
  /\ profile_info = EmptyDict
  /\ result = None
  /\ all_works = << >>
  /\ seen_ids = {}
  /\ user_info = EmptyDict
  /\ max_cursor = 0
  /\ has_more = TRUE
  /\ empty_pages = 0
  /\ xhr_page_num = 0
  /\ api_page_num = 0
  /\ primary = "idle"
  /\ xhr_yield = 0
  /\ item_info = EmptyDict
  /\ stop = "none"
  /\ cut = FALSE
  /\ stall = 0
  /\ nonAdv = 0
  /\ got_cursor = 0
  /\ onlyEmptyMore = TRUE
  /\ sawNoMore = FALSE
  /\ scen = 0

UserIdle == UserInit /\ max_works = None
IdleButCookie == UserIdle /\ SelIdle /\ NoteIdle /\ DomIdle /\ MediaIdle /\ PoolIdle /\ EnvIdle /\ ResolveIdle /\ WaitIdle /\ VdomIdle /\ EquivIdle /\ PollIdle /\ ListenIdle /\ OrderIdle /\ CacheIdle /\ LifeIdle
IdleButEnv == UserIdle /\ SelIdle /\ NoteIdle /\ DomIdle /\ MediaIdle /\ PoolIdle /\ CookieIdle /\ ResolveIdle /\ WaitIdle /\ VdomIdle /\ EquivIdle /\ PollIdle /\ ListenIdle /\ OrderIdle /\ CacheIdle /\ LifeIdle
IdleButResolve == UserIdle /\ SelIdle /\ NoteIdle /\ DomIdle /\ MediaIdle /\ PoolIdle /\ CookieIdle /\ EnvIdle /\ WaitIdle /\ VdomIdle /\ EquivIdle /\ PollIdle /\ ListenIdle /\ OrderIdle /\ CacheIdle /\ LifeIdle
IdleButWait == UserIdle /\ SelIdle /\ NoteIdle /\ DomIdle /\ MediaIdle /\ PoolIdle /\ CookieIdle /\ EnvIdle /\ ResolveIdle /\ VdomIdle /\ EquivIdle /\ PollIdle /\ ListenIdle /\ OrderIdle /\ CacheIdle /\ LifeIdle
IdleButVdom == UserIdle /\ SelIdle /\ NoteIdle /\ DomIdle /\ MediaIdle /\ PoolIdle /\ CookieIdle /\ EnvIdle /\ ResolveIdle /\ WaitIdle /\ EquivIdle /\ PollIdle /\ ListenIdle /\ OrderIdle /\ CacheIdle /\ LifeIdle
IdleButEquiv == UserIdle /\ SelIdle /\ NoteIdle /\ DomIdle /\ MediaIdle /\ PoolIdle /\ CookieIdle /\ EnvIdle /\ ResolveIdle /\ WaitIdle /\ VdomIdle /\ PollIdle /\ ListenIdle /\ OrderIdle /\ CacheIdle /\ LifeIdle
IdleButPoll == UserIdle /\ SelIdle /\ NoteIdle /\ DomIdle /\ MediaIdle /\ PoolIdle /\ CookieIdle /\ EnvIdle /\ ResolveIdle /\ WaitIdle /\ VdomIdle /\ EquivIdle /\ ListenIdle /\ OrderIdle /\ CacheIdle /\ LifeIdle
IdleButListen == UserIdle /\ SelIdle /\ NoteIdle /\ DomIdle /\ MediaIdle /\ PoolIdle /\ CookieIdle /\ EnvIdle /\ ResolveIdle /\ WaitIdle /\ VdomIdle /\ EquivIdle /\ PollIdle /\ OrderIdle /\ CacheIdle /\ LifeIdle
IdleButOrder == UserIdle /\ SelIdle /\ NoteIdle /\ DomIdle /\ MediaIdle /\ PoolIdle /\ CookieIdle /\ EnvIdle /\ ResolveIdle /\ WaitIdle /\ VdomIdle /\ EquivIdle /\ PollIdle /\ ListenIdle /\ CacheIdle /\ LifeIdle
IdleButCache == UserIdle /\ SelIdle /\ NoteIdle /\ DomIdle /\ MediaIdle /\ PoolIdle /\ CookieIdle /\ EnvIdle /\ ResolveIdle /\ WaitIdle /\ VdomIdle /\ EquivIdle /\ PollIdle /\ ListenIdle /\ OrderIdle /\ LifeIdle
IdleButLife == UserIdle /\ SelIdle /\ NoteIdle /\ DomIdle /\ MediaIdle /\ PoolIdle /\ CookieIdle /\ EnvIdle /\ ResolveIdle /\ WaitIdle /\ VdomIdle /\ EquivIdle /\ PollIdle /\ ListenIdle /\ OrderIdle /\ CacheIdle

Init == UserInit /\ SelIdle /\ NoteIdle /\ DomIdle /\ MediaIdle /\ PoolIdle /\ MoreIdle

\* ------------------------------------------------- _try_xhr_pagination parts
\* `if aweme_id and aweme_id not in seen_ids`
IsNewId(aweme_id, seen) == aweme_id # NoId /\ aweme_id \notin seen

\* the `for item in aweme_list` loop of the primary strategy: the works and ids
\* after the page, and batch, the number of items it added
RECURSIVE XhrAccumulate(_, _, _, _)
XhrAccumulate(aweme_list, works, seen, batch) ==
  IF aweme_list = << >>
  THEN [all_works |-> works, seen_ids |-> seen, batch |-> batch]
  ELSE LET item == Head(aweme_list)
       IN IF IsNewId(item.aweme_id, seen)
          THEN XhrAccumulate(Tail(aweme_list), Append(works, parse_aweme_item(item)),
                             seen \cup {item.aweme_id}, batch + 1)
          ELSE XhrAccumulate(Tail(aweme_list), works, seen, batch)

\* bug variants of XhrLoopCond
XhrLoopCondOffByOne(hm, ep) == hm /\ ep <= MAX_EMPTY
XhrLoopCondIgnoresHasMore(hm, ep) == ep < MAX_EMPTY

\* `while has_more and empty_pages < MAX_EMPTY`
XhrLoopCond(hm, ep) == hm /\ ep < MAX_EMPTY

\* `if max_works and len(all_works) >= max_works: break`
XhrMaxReached(mw, works) == MaxWorksSet(mw) /\ Len(works) >= mw[1]

\* a bug variant of EmptyPagesAfter: only an empty page counts, a page of
\* already seen items resets the counter
EmptyPagesAfterCountsEmptyListOnly(ep, batch, aweme_list) ==
  IF aweme_list = << >> THEN ep + 1 ELSE 0

\* a bug variant of EmptyPagesAfter: a productive page leaves the counter
EmptyPagesAfterNeverReset(ep, batch, aweme_list) == IF batch = 0 THEN ep + 1 ELSE ep

\* `if batch == 0: empty_pages += 1 else: empty_pages = 0`
EmptyPagesAfter(ep, batch, aweme_list) == IF batch = 0 THEN ep + 1 ELSE 0

\* a bug variant of CursorAfter: a zero or missing max_cursor is taken too
CursorAfterTakesZero(cur, new_cursor) == new_cursor

\* `if new_cursor: max_cursor = new_cursor`
CursorAfter(cur, new_cursor) == IF new_cursor # 0 THEN new_cursor ELSE cur

\* a bug variant of XhrResult: works_count taken before the truncation
XhrResultCountBeforeCut(works, uinfo, mw) ==
  LET w == IF MaxWorksSet(mw) /\ Len(works) > mw[1] THEN Prefix(works, mw[1]) ELSE works
  IN IF w = << >> THEN None
     ELSE Some([user |-> uinfo, works_count |-> Len(works), works |-> w])

\* the tail of _try_xhr_pagination: truncate, None when empty, else the dict
XhrResult(works, uinfo, mw) ==
  LET w == IF MaxWorksSet(mw) /\ Len(works) > mw[1] THEN Prefix(works, mw[1]) ELSE works
  IN IF w = << >> THEN None
     ELSE Some([user |-> uinfo, works_count |-> Len(w), works |-> w])

\* the tail of _try_api_approach
ApiResult(works, uinfo) ==
  IF works = << >> THEN None
  ELSE Some([user |-> uinfo, works_count |-> Len(works), works |-> works])

\* a bug variant of HasWorks: the primary's result is never taken
HasWorksNever(res) == FALSE

\* `if result and result.get("works")`
HasWorks(res) == res # None /\ res[1].works # << >>

\* the items of one page all carry the same author record; it is read only
\* while user_info is still empty
AuthorChoices(uinfo, aweme_list) ==
  IF uinfo = EmptyDict /\ aweme_list # << >> THEN Authors ELSE {None}

\* ----------------------------------------------------------------- actions
\* get_all_user_works up to the call of the primary strategy: the sec_user_id
\* is extracted, the browser warmed up and the profile fetched once.
Start(url_ok, warm_ok, profile_data) ==
  /\ pc = "start"
  /\ IF url_ok /\ warm_ok
     THEN /\ profile_info' = extract_user_info_from_profile(profile_data)
          /\ pc' = "xhr_open"
          /\ UNCHANGED result
     ELSE /\ pc' = "done"
          /\ result' = None
          /\ UNCHANGED profile_info
  /\ UNCHANGED << max_works, all_works, seen_ids, user_info, max_cursor, has_more,
                  empty_pages, xhr_page_num, api_page_num >>
  /\ UNCHANGED histVars
  /\ UNCHANGED got_cursor
  /\ UNCHANGED itemVars

\* _try_xhr_pagination from its entry to the head of its loop: the context is
\* created and the user page navigated to; either may raise, and the exception
\* reaches the `except Exception` of get_all_user_works.
XhrOpen(ok) ==
  /\ pc = "xhr_open"
  /\ IF ok
     THEN /\ pc' = "xhr_loop"
          /\ primary' = "running"
          /\ UNCHANGED result
     ELSE /\ pc' = "done"
          /\ primary' = "raised"
          /\ result' = None
  /\ all_works' = << >>
  /\ seen_ids' = {}
  /\ user_info' = EmptyDict
  /\ max_cursor' = 0
  /\ has_more' = TRUE
  /\ empty_pages' = 0
  /\ xhr_page_num' = 0
  /\ UNCHANGED << max_works, profile_info, api_page_num >>
  /\ UNCHANGED << xhr_yield, item_info, stop, cut, stall, nonAdv, onlyEmptyMore, sawNoMore, scen >>
  /\ got_cursor' = 0
  /\ UNCHANGED itemVars

\* One iteration of the primary loop: the loop condition and the max_works
\* break let it run, the XHR is issued for max_cursor and answered by resp.
XhrFetch(resp, author) ==
  /\ pc = "xhr_loop"
  /\ XhrLoopCond(has_more, empty_pages)
  /\ ~XhrMaxReached(max_works, all_works)
  /\ xhr_page_num < MaxPages
  /\ xhr_page_num' = xhr_page_num + 1
  /\ LET aweme_list == IF resp.has_list THEN resp.aweme_list ELSE << >>
         new_cursor == resp.max_cursor
         acc == XhrAccumulate(aweme_list, all_works, seen_ids, 0)
         advanced == ~resp.err /\ new_cursor > max_cursor
         added == ~resp.err /\ acc.batch > 0
     IN /\ IF resp.err
           THEN /\ empty_pages' = empty_pages + 1
                /\ UNCHANGED << all_works, seen_ids, user_info, max_cursor, has_more >>
           ELSE /\ has_more' = resp.has_more
                /\ all_works' = acc.all_works
                /\ seen_ids' = acc.seen_ids
                /\ user_info' = IF user_info = EmptyDict /\ acc.batch > 0
                                THEN extract_user_info_from_item(author)
                                ELSE user_info
                /\ empty_pages' = EmptyPagesAfter(empty_pages, acc.batch, aweme_list)
                /\ max_cursor' = CursorAfter(max_cursor, new_cursor)
        /\ stall' = IF added \/ advanced THEN 0 ELSE stall + 1
        /\ nonAdv' = IF resp.err \/ advanced THEN 0
                     ELSE IF all_works # << >> THEN nonAdv + 1 ELSE nonAdv
        /\ onlyEmptyMore' = (onlyEmptyMore /\ ~resp.err /\ resp.has_list
                             /\ resp.aweme_list = << >> /\ resp.has_more)
        /\ sawNoMore' = (sawNoMore \/ (~resp.err /\ ~resp.has_more))
        /\ scen' = IF resp.err THEN (IF scen = 3 THEN 3 ELSE 4)
                   ELSE IF scen = 0 /\ xhr_page_num = 0 /\ acc.batch = 2 /\ resp.has_more THEN 1
                   ELSE IF scen = 1 /\ acc.batch = 2 /\ resp.has_more THEN 2
                   ELSE IF scen = 2 /\ acc.batch = 0 /\ ~resp.has_more THEN 3
                   ELSE IF scen = 3 THEN 3
                   ELSE 4
  /\ UNCHANGED << pc, max_works, profile_info, result, api_page_num >>
  /\ UNCHANGED << primary, xhr_yield, item_info, stop, cut >>
  /\ got_cursor' = IF ~resp.err /\ resp.max_cursor # 0 THEN resp.max_cursor ELSE got_cursor
  /\ UNCHANGED itemVars

\* page.evaluate raises inside the primary loop: the `finally` closes the
\* context, nothing catches the exception before get_all_user_works does.
XhrRaise ==
  /\ pc = "xhr_loop"
  /\ XhrLoopCond(has_more, empty_pages)
  /\ ~XhrMaxReached(max_works, all_works)
  /\ pc' = "done"
  /\ primary' = "raised"
  /\ result' = None
  /\ UNCHANGED << max_works, profile_info, all_works, seen_ids, user_info, max_cursor,
                  has_more, empty_pages, xhr_page_num, api_page_num >>
  /\ UNCHANGED << xhr_yield, item_info, stop, cut, stall, nonAdv, onlyEmptyMore, sawNoMore, scen >>
  /\ UNCHANGED got_cursor
  /\ UNCHANGED itemVars

\* The primary loop ends; _try_xhr_pagination returns and get_all_user_works
\* either returns the merged result or enters _try_api_approach.
XhrReturn ==
  /\ pc = "xhr_loop"
  /\ ~XhrLoopCond(has_more, empty_pages) \/ XhrMaxReached(max_works, all_works)
  /\ LET res == XhrResult(all_works, user_info, max_works)
     IN /\ primary' = "returned"
        /\ xhr_yield' = IF res = None THEN 0 ELSE Len(res[1].works)
        /\ IF HasWorks(res)
           THEN /\ result' = Some(MergedResult(res[1], profile_info))
                /\ pc' = "done"
                /\ item_info' = res[1].user
                /\ stop' = IF ~XhrLoopCond(has_more, empty_pages)
                           THEN (IF ~has_more THEN "no_more" ELSE "empty")
                           ELSE "max"
                /\ cut' = (Len(res[1].works) < Len(all_works))
                /\ UNCHANGED << stall, nonAdv, sawNoMore, scen >>
           ELSE \* _try_api_approach is entered; the histories start anew
                /\ result' = res
                /\ pc' = "api_loop"
                /\ stop' = "none"
                /\ UNCHANGED << item_info, cut >>
                /\ stall' = 0
                /\ nonAdv' = 0
                /\ sawNoMore' = FALSE
                /\ scen' = 0
  \* on return the locals of _try_xhr_pagination are gone; lines 328-331 give
  \* _try_api_approach the same initial values
  /\ all_works' = << >>
  /\ user_info' = EmptyDict
  /\ max_cursor' = 0
  /\ seen_ids' = {}
  /\ has_more' = TRUE
  /\ empty_pages' = 0
  /\ UNCHANGED << max_works, profile_info, xhr_page_num, api_page_num >>
  /\ UNCHANGED onlyEmptyMore
  /\ got_cursor' = 0
  /\ UNCHANGED itemVars

\* One iteration of the fallback loop of _try_api_approach; when the iteration
\* leaves the loop, _try_api_approach returns and get_all_user_works ends.
ApiFetch(resp, author) ==
  /\ pc = "api_loop"
  /\ api_page_num < MaxPages
  /\ Len(all_works) + Len(resp.aweme_list) <= MaxApiWorks
  /\ api_page_num' = api_page_num + 1
  /\ onlyEmptyMore' = (onlyEmptyMore /\ ~resp.err /\ resp.has_list
                       /\ resp.aweme_list = << >> /\ resp.has_more)
  /\ LET unusable == resp.err \/ resp.status_code # 0 \/ ~resp.has_list
                     \/ resp.aweme_list = << >>
         appended == all_works \o [i \in 1 .. Len(resp.aweme_list) |->
                                     parse_aweme_item(resp.aweme_list[i])]
         reached == MaxWorksSet(max_works) /\ Len(appended) >= max_works[1]
         works == IF unusable THEN all_works
                  ELSE IF reached THEN Prefix(appended, max_works[1]) ELSE appended
         uinfo == IF ~unusable /\ user_info = EmptyDict
                  THEN extract_user_info_from_item(author) ELSE user_info
         leaves == unusable \/ reached \/ ~resp.has_more
         res == ApiResult(works, uinfo)
     IN \* on return the locals of _try_api_approach are gone
        /\ all_works' = IF leaves THEN << >> ELSE works
        /\ user_info' = IF leaves THEN EmptyDict ELSE uinfo
        /\ has_more' = IF leaves THEN TRUE ELSE resp.has_more
        /\ max_cursor' = IF leaves THEN 0 ELSE resp.max_cursor
        /\ stop' = IF unusable THEN "empty" ELSE IF reached THEN "max"
                   ELSE IF ~resp.has_more THEN "no_more" ELSE stop
        /\ stall' = IF ~unusable /\ (IdsOf(appended) # IdsOf(all_works)
                                     \/ resp.max_cursor > max_cursor)
                    THEN 0 ELSE stall + 1
        /\ cut' = (~unusable /\ reached /\ Len(works) < Len(appended))
        /\ IF leaves
           THEN /\ pc' = "done"
                /\ result' = IF HasWorks(res) THEN Some(MergedResult(res[1], profile_info))
                             ELSE None
                /\ item_info' = IF HasWorks(res) THEN res[1].user ELSE item_info
           ELSE /\ pc' = "api_loop"
                /\ UNCHANGED << result, item_info >>
  /\ UNCHANGED << max_works, profile_info, seen_ids, empty_pages, xhr_page_num >>
  /\ UNCHANGED << primary, xhr_yield, nonAdv, sawNoMore, scen >>
  /\ UNCHANGED got_cursor
  /\ UNCHANGED itemVars

Next ==
  \/ \E url_ok \in BOOLEAN, warm_ok \in BOOLEAN, profile_data \in Profiles :
       Start(url_ok, warm_ok, profile_data)
  \/ \E ok \in BOOLEAN : XhrOpen(ok)
  \/ \E resp \in Responses : \E author \in AuthorChoices(user_info, resp.aweme_list) :
       XhrFetch(resp, author)
  \/ XhrRaise
  \/ XhrReturn
  \/ \E resp \in Responses : \E author \in AuthorChoices(user_info, resp.aweme_list) :
       ApiFetch(resp, author)

Spec == Init /\ [][Next]_vars

\* ------------------------------------------------- a user with four works
\* The environment of end-to-end scenario C: the user has published 2 + 2
\* works, a list page names works in ascending id order, and the unsigned
\* direct API of the fallback strategy is refused.
ScenarioWorks == 2 + 2
ScenarioLists ==
  { l \in SeqsUpTo([aweme_id : 1 .. ScenarioWorks], MaxPage) :
      \A i \in 1 .. Len(l) - 1 : l[i].aweme_id < l[i + 1].aweme_id }
ScenarioResponses ==
  {ErrResp} \cup
  [err : {FALSE}, status_code : {0}, has_list : {TRUE}, aweme_list : ScenarioLists,
   has_more : BOOLEAN, max_cursor : 0 .. MaxCursor]
RefusedResponses == {ErrResp, StatusResp, NoListResp}

ScenarioNext ==
  \/ \E url_ok \in BOOLEAN, warm_ok \in BOOLEAN, profile_data \in Profiles :
       Start(url_ok, warm_ok, profile_data)
  \/ \E ok \in BOOLEAN : XhrOpen(ok)
  \/ \E resp \in ScenarioResponses : \E author \in AuthorChoices(user_info, resp.aweme_list) :
       XhrFetch(resp, author)
  \/ XhrRaise
  \/ XhrReturn
  \/ \E resp \in RefusedResponses : ApiFetch(resp, None)

ScenarioSpec == Init /\ [][ScenarioNext]_vars

\* ------------------------------------------------------------------ claims
XhrFetched == xhr_page_num' > xhr_page_num
ApiFetched == api_page_num' > api_page_num
Returned == pc = "done" /\ result # None

\* C1: the works of every non-null result of get_all_user_works hold no two
\* entries with the same aweme_id, whichever strategy produced the result.
C1_NoDuplicateIds == Returned => NoDuplicateIds(result[1].works)

\* C2: every run of the paginator terminates: a fetch loop goes on only while
\* responses bring a new aweme_id or advance the cursor, so after MAX_EMPTY
\* consecutive responses that did neither (a stream with has_more true, items
\* and a cursor that never advances) neither strategy fetches again.
C2_StalledStreamStops == [][(XhrFetched \/ ApiFetched) => stall < MAX_EMPTY]_vars

\* C3 as claimed: when every response has has_more true and an empty item
\* list, the strategies of one run issue at most MAX_EMPTY list fetches.
C3_AtMostMaxEmptyFetches == onlyEmptyMore => xhr_page_num + api_page_num <= MAX_EMPTY

\* C3 as amended: when every response has has_more true and an empty item
\* list, the primary strategy issues at most MAX_EMPTY list fetches and the
\* fallback at most one; a run that the primary returned from ends with
\* exactly MAX_EMPTY + 1 fetches and a null result.
C3_MaxEmptyPlusFallbackFetch ==
  onlyEmptyMore =>
    /\ xhr_page_num <= MAX_EMPTY
    /\ api_page_num <= 1
    /\ (pc = "done" /\ primary = "returned") =>
         (xhr_page_num = MAX_EMPTY /\ api_page_num = 1 /\ result = None)

C3_Witness ==
  /\ onlyEmptyMore /\ pc = "done" /\ primary = "returned"
  /\ xhr_page_num = MAX_EMPTY /\ api_page_num = 1

\* C4: with a caller-supplied maximum M >= 0 a non-null result has at most M
\* works, and exactly M when pagination stopped because the count reached M.
C4_AtMostMaxWorks ==
  (Returned /\ max_works # None) =>
    /\ Len(result[1].works) <= max_works[1]
    /\ stop = "max" => Len(result[1].works) = max_works[1]

\* C5: in every non-null result works_count equals the length of works.
C5_CountIsLength == Returned => result[1].works_count = Len(result[1].works)

C5_Witness == Returned /\ cut /\ api_page_num = 0 /\ result[1].works_count = 1

C7_FallbackOnlyAfterEmptyPrimary ==
  /\ [](api_page_num > 0 => (primary = "returned" /\ xhr_yield = 0))
  /\ [][(ApiFetched => (primary = "returned" /\ xhr_yield = 0))
        /\ (XhrFetched => (primary = "running" /\ api_page_num = 0))]_vars

C7_Witness == pc = "done" /\ xhr_page_num > 0 /\ api_page_num > 1 /\ result # None

\* C8: when the primary strategy fails in any way, a session primitive raising
\* inside it included, the fallback strategy is attempted before
\* get_all_user_works returns null.
C8_PrimaryFailureTriesFallback ==
  (pc = "done" /\ primary # "idle" /\ result = None) => api_page_num > 0

\* C9 as claimed: a field that is non-empty in the profile data and in the
\* item-derived data carries the profile's value in the final result.
C9_ProfileValueWins ==
  Returned =>
    \A k \in (DOMAIN profile_info) \cap (DOMAIN item_info) :
      (profile_info[k] # "" /\ item_info[k] # "") => result[1].user[k] = profile_info[k]

\* C9 as amended: a field that is non-empty in the item-derived data carries
\* the item-derived value in the final result; the profile's value is carried
\* by the fields the item-derived data lacks or leaves empty; with no profile
\* data the item-derived user is returned as it is.
C9_ItemValueWins ==
  Returned =>
    LET user == result[1].user
    IN IF profile_info = EmptyDict THEN user = item_info
       ELSE /\ DOMAIN user = (DOMAIN profile_info) \cup { k \in DOMAIN item_info : item_info[k] # "" }
            /\ \A k \in DOMAIN item_info : item_info[k] # "" => user[k] = item_info[k]
            /\ \A k \in DOMAIN profile_info :
                 (k \notin DOMAIN item_info \/ item_info[k] = "") => user[k] = profile_info[k]

C9_Witness ==
  /\ Returned
  /\ profile_info # EmptyDict /\ item_info # EmptyDict
  /\ profile_info["nickname"] # "" /\ item_info["nickname"] # ""
  /\ profile_info["nickname"] # item_info["nickname"]
  /\ result[1].user["nickname"] = item_info["nickname"]
  /\ result[1].user["uid"] = profile_info["uid"]

\* C10: three pages carrying 2, 2 and 0 new items with has_more true, true,
\* false yield works_count = 4 without duplicates after exactly three list
\* fetches; and the primary strategy issues no fetch after a non-error
\* response whose has_more is false.
C10_ScenarioC ==
  /\ [](scen = 3 =>
          /\ xhr_page_num = 3 /\ api_page_num = 0
          /\ pc = "done" =>
               /\ result # None
               /\ result[1].works_count = 4
               /\ Len(result[1].works) = 4
               /\ NoDuplicateIds(result[1].works))
  /\ [][XhrFetched => ~sawNoMore]_vars

C10_Witness == scen = 3 /\ Returned /\ result[1].works_count = 4 /\ xhr_page_num = 3

\* C28: the primary loop counts consecutive unproductive responses (an
\* error, or no new aweme_id) in one counter that only a response adding a
\* new aweme_id resets; no fetch is issued once it has reached MAX_EMPTY, and
\* it never exceeds MAX_EMPTY.
C28_OneCounterOfUnproductiveResponses ==
  /\ [](empty_pages <= MAX_EMPTY)
  /\ [][XhrFetched =>
         /\ empty_pages < MAX_EMPTY
         /\ empty_pages' = IF Len(all_works') > Len(all_works) THEN 0
                            ELSE empty_pages + 1]_vars

\* the counter reached MAX_EMPTY after it had been reset by a productive page
C28_Witness ==
  /\ pc = "xhr_loop" /\ has_more /\ empty_pages = MAX_EMPTY
  /\ all_works # << >> /\ xhr_page_num > MAX_EMPTY

\* C29: the first list fetch of the primary loop uses cursor 0; every later
\* one uses the latest non-zero max_cursor a non-error response carried (0
\* if there was none); an error response or a missing or zero max_cursor
\* leaves the cursor as it is, so it never goes back to 0.
C29_CursorIsLatestNonZero ==
  /\ [](pc = "xhr_loop" => max_cursor = got_cursor)
  /\ [][XhrFetched =>
         /\ xhr_page_num = 0 => max_cursor = 0
         /\ max_cursor # 0 => max_cursor' # 0]_vars

\* the cursor survived a response that neither advanced it nor added a work
C29_Witness ==
  /\ pc = "xhr_loop" /\ xhr_page_num >= 2
  /\ max_cursor = MaxCursor /\ got_cursor = MaxCursor /\ stall >= 1

\* ======================================================= quality selector
\* A URL is known by where it stands in the payload: `of` is the index of
\* the variant descriptor it belongs to (0: the default play_addr), `n` its
\* place in that url_list, `host` the domain marker the selector looks for.
TagUrls(of, hosts) ==
  [k \in 1 .. Len(hosts) |-> [of |-> of, n |-> k, host |-> hosts[k]]]

UrlHostLists == { << >>, << "other", "douyinvod.com" >> }

\* entries of video.bit_rate before their URLs are tagged; an absent key
\* reads as its .get default (format "", numbers 0, url_list [])
Mp4Shapes ==
  [format : {"mp4"}, bit_rate : 0 .. MaxBitRate, width : 0 .. MaxWidth,
   height : 0 .. MaxHeight, hosts : UrlHostLists]
DashShapes ==
  [format : {"dash"}, bit_rate : {MaxBitRate}, width : {MaxWidth},
   height : {MaxHeight}, hosts : {<< "douyinvod.com" >>}]
VariantShapes == Mp4Shapes \cup DashShapes

Variant(i, shape) ==
  [format |-> shape.format, bit_rate |-> shape.bit_rate, width |-> shape.width,
   height |-> shape.height, url_list |-> TagUrls(i, shape.hosts)]

BitRateLists ==
  { [i \in 1 .. Len(shapes) |-> Variant(i, shapes[i])] :
      shapes \in SeqsUpTo(VariantShapes, MaxVariants) }

\* video.play_addr.url_list, the default-quality URLs
DefaultUrlLists == { << >>, TagUrls(0, << "other" >>) }

\* aweme_detail as _parse_video_detail reads it; None stands for a payload
\* that is null or has no video.bit_rate
VideoDetails ==
  {None} \cup { Some(d) : d \in [bit_rate : BitRateLists, play_addr : DefaultUrlLists] }

\* `marker in u`: v3-web.douyinvod is the one host that holds another marker
Contains(host, marker) ==
  host = marker \/ (host = "v3-web.douyinvod" /\ marker = "douyinvod")

\* a bug variant of select_best_url: the preferred domain is ignored
select_first_url(url_list, preferred_domain) ==
  IF url_list # << >> THEN Some(url_list[1]) ELSE None

\* _select_best_url
select_best_url(url_list, preferred_domain) ==
  LET hits == { k \in 1 .. Len(url_list) : Contains(url_list[k].host, preferred_domain) }
  IN IF hits # {} THEN Some(url_list[CHOOSE k \in hits : \A h \in hits : k <= h])
     ELSE IF url_list # << >> THEN Some(url_list[1]) ELSE None

\* a bug variant of Improves: the bit_rate tie-break is missing
ImprovesIgnoresBitRate(resolution, current_br, best) ==
  resolution > best.resolution

\* a bug variant of Improves: an equal variant replaces the current best
ImprovesOnTie(resolution, current_br, best) ==
  \/ resolution > best.resolution
  \/ resolution = best.resolution /\ current_br >= best.bitrate

\* `resolution > best_resolution or (resolution == best_resolution and
\*  current_br > best_bitrate)`
Improves(resolution, current_br, best) ==
  \/ resolution > best.resolution
  \/ resolution = best.resolution /\ current_br > best.bitrate

\* the `for br in bit_rate_list` loop from entry i on
RECURSIVE BestOf(_, _, _)
BestOf(bit_rate_list, i, best) ==
  IF i > Len(bit_rate_list) THEN best
  ELSE LET br == bit_rate_list[i]
           resolution == br.width * br.height
           taken == /\ ~(br.format # "mp4" \/ br.width = 0)
                    /\ Improves(resolution, br.bit_rate, best)
                    /\ br.url_list # << >>
       IN BestOf(bit_rate_list, i + 1,
                 IF taken
                 THEN [url |-> select_best_url(br.url_list, "douyinvod.com"),
                       resolution |-> resolution, bitrate |-> br.bit_rate]
                 ELSE best)

VideoResult(best_url) ==
  [type |-> "video",
   items |-> << [type |-> "video", video_url |-> best_url, cover_url |-> ""] >>]

\* a bug variant of parse_video_detail: a detail without bit-rate list
\* yields a result with a placeholder URL
parse_video_detail_placeholder(d) ==
  Some(VideoResult([of |-> 0, n |-> 0, host |-> "other"]))

\* _parse_video_detail
parse_video_detail(d) ==
  IF d = None THEN None
  ELSE LET best == BestOf(d[1].bit_rate, 1,
                          [url |-> None, resolution |-> 0, bitrate |-> 0])
           best_url == IF best.url # None THEN best.url
                       ELSE IF d[1].play_addr # << >> THEN Some(d[1].play_addr[1])
                       ELSE None
       IN IF best_url = None THEN None ELSE Some(VideoResult(best_url[1]))

SelInit == sel_pc = "call" /\ detail \in VideoDetails /\ video_result = None

ParseVideoDetail ==
  /\ sel_pc = "call"
  /\ sel_pc' = "done"
  /\ video_result' = parse_video_detail(detail)
  /\ UNCHANGED << detail, userVars, noteVars, domVars, mediaVars, poolVars, moreVars >>

SelectorNext == ParseVideoDetail

SelectorInit == UserIdle /\ SelInit /\ NoteIdle /\ DomIdle /\ MediaIdle /\ PoolIdle /\ MoreIdle

SelectorSpec == SelectorInit /\ [][SelectorNext]_vars

\* -------------------------------------------------- claims on the selector
\* the URL _parse_video_detail returned
SelectedUrl == video_result[1].items[1].video_url
Selected == sel_pc = "done" /\ video_result # None
Survives(br) == br.format = "mp4" /\ br.width > 0
\* no descriptor of `among` beats br on width*height, then on bit_rate
IsMaxAmong(br, among) ==
  \A other \in among :
    \/ other.width * other.height < br.width * br.height
    \/ /\ other.width * other.height = br.width * br.height
       /\ other.bit_rate <= br.bit_rate
Descriptors == { detail[1].bit_rate[i] : i \in 1 .. Len(detail[1].bit_rate) }

\* C11 (as stated): the variant whose URL _parse_video_detail returns has
\* the maximum width*height, tie-broken by maximum bit_rate, among all
\* descriptors with format mp4 and width > 0.
C11_SelectedIsMaxSurvivor ==
  (Selected /\ SelectedUrl.of > 0) =>
    LET br == detail[1].bit_rate[SelectedUrl.of]
    IN Survives(br) /\ IsMaxAmong(br, { o \in Descriptors : Survives(o) })

\* C11 (amended): the variant whose URL _parse_video_detail returns is an
\* mp4 descriptor with width > 0 and a non-empty url_list, and has the
\* maximum width*height, tie-broken by maximum bit_rate, among the
\* descriptors with format mp4, width > 0 and a non-empty url_list; the URL
\* is that descriptor's douyinvod.com candidate, else its first one.
C11_SelectedIsMaxSurvivorWithUrl ==
  (Selected /\ SelectedUrl.of > 0) =>
    LET br == detail[1].bit_rate[SelectedUrl.of]
    IN /\ Survives(br) /\ br.url_list # << >>
       /\ IsMaxAmong(br, { o \in Descriptors : Survives(o) /\ o.url_list # << >> })
       /\ Some(SelectedUrl) = select_best_url(br.url_list, "douyinvod.com")

\* scenario A: two mp4 variants, the larger with the higher bit_rate, and one
\* non-mp4 variant; the larger mp4 variant's URL is selected
C11_Witness ==
  /\ Selected
  /\ Len(detail[1].bit_rate) = 3
  /\ \E i, j, k \in 1 .. 3 :
       LET a == detail[1].bit_rate[i]
           b == detail[1].bit_rate[j]
           c == detail[1].bit_rate[k]
       IN /\ Survives(a) /\ Survives(b) /\ c.format = "dash"
          /\ a.url_list # << >>
          /\ a.width * a.height < b.width * b.height
          /\ a.bit_rate < b.bit_rate
          /\ SelectedUrl.of = j

\* C12: the default-quality URL is returned exactly when no variant survives
\* the mp4 / width > 0 filter and a default exists; with no survivor and no
\* default nothing is returned; a survivor is never bypassed for the default.
C12_DefaultOnlyWhenNoneSurvives ==
  (sel_pc = "done" /\ detail # None) =>
    LET none_survives == { o \in Descriptors : Survives(o) } = {}
        has_default == detail[1].play_addr # << >>
    IN /\ (Selected /\ SelectedUrl.of = 0) <=> (none_survives /\ has_default)
       /\ (none_survives /\ ~has_default) => video_result = None

\* br can be selected and stands level with the selected descriptor sel
TiesWith(br, sel) ==
  /\ Survives(br) /\ br.url_list # << >>
  /\ br.width * br.height = sel.width * sel.height
  /\ br.bit_rate = sel.bit_rate

\* C33: when several descriptors that can be selected (mp4, width > 0, a
\* URL to return) tie on width*height and on bit_rate, the URL returned is
\* one of the earliest of them in the bit_rate list: no descriptor before
\* the selected one ties with it.
C33_EarliestOfTiedVariants ==
  (Selected /\ SelectedUrl.of > 0) =>
    \A i \in 1 .. SelectedUrl.of - 1 :
      ~TiesWith(detail[1].bit_rate[i], detail[1].bit_rate[SelectedUrl.of])

\* the first and the last of three descriptors tie on both keys, a smaller
\* one stands between them, and the first one is selected
C33_Witness ==
  /\ Selected /\ Len(detail[1].bit_rate) = 3 /\ SelectedUrl.of = 1
  /\ TiesWith(detail[1].bit_rate[3], detail[1].bit_rate[1])
  /\ Survives(detail[1].bit_rate[2])
  /\ ~TiesWith(detail[1].bit_rate[2], detail[1].bit_rate[1])

ImageHostLists == { << >>, << "imgcdn", "douyinpic" >> }
VideoHostLists == { << >>, << "vodcdn", "douyinvod" >>, << "douyinvod", "v3-web.douyinvod" >> }
ImageShapes ==
  [url_list : {None} \cup { Some(h) : h \in ImageHostLists },
   video : {None} \cup { Some(h) : h \in VideoHostLists }]

ImageRecord(i, shape) ==
  [url_list |-> IF shape.url_list = None THEN None
                ELSE Some(TagUrls(i, shape.url_list[1])),
   video |-> IF shape.video = None THEN None
             ELSE Some(TagUrls(i, shape.video[1]))]

ImageLists ==
  { [i \in 1 .. Len(shapes) |-> ImageRecord(i, shapes[i])] :
      shapes \in SeqsUpTo(ImageShapes, MaxImages) }

\* `image_url = None; if "url_list" in img: image_url = _select_best_url(...)`
NoteImageUrl(img) ==
  IF img.url_list = None THEN None
  ELSE select_best_url(img.url_list[1], "douyinpic")

\* `video_url = None; if "video" in img: ...`
NoteVideoUrl(img) ==
  IF img.video = None \/ img.video[1] = << >> THEN None
  ELSE LET first == select_best_url(img.video[1], "v3-web.douyinvod")
       IN IF first # None THEN first
          ELSE select_best_url(img.video[1], "douyinvod")

\* a bug variant of EmitItem: the video rendition is ignored
EmitItemAlwaysImage(image_url, video_url) ==
  IF image_url # None THEN << [type |-> "image", image_url |-> image_url[1]] >>
  ELSE << >>

\* "Build item based on content": the items one record adds
EmitItem(image_url, video_url) ==
  IF video_url # None /\ image_url # None
  THEN << [type |-> "animated_image", image_url |-> image_url[1],
           video_url |-> video_url[1]] >>
  ELSE IF image_url # None
  THEN << [type |-> "image", image_url |-> image_url[1]] >>
  ELSE << >>

\* a bug variant of AppendItems: new items go to the front
PrependItems(so_far, emitted) == emitted \o so_far

\* items.append(...)
AppendItems(so_far, emitted) == so_far \o emitted

\* the `for img in images` loop from record i on
RECURSIVE NoteItems(_, _, _)
NoteItems(imgs, i, so_far) ==
  IF i > Len(imgs) THEN so_far
  ELSE NoteItems(imgs, i + 1,
                 AppendItems(so_far, EmitItem(NoteImageUrl(imgs[i]), NoteVideoUrl(imgs[i]))))

NoteInit == note_pc = "call" /\ images \in ImageLists /\ items = << >>

ReconcileNote ==
  /\ note_pc = "call"
  /\ note_pc' = "done"
  /\ items' = NoteItems(images, 1, << >>)
  /\ UNCHANGED << images, userVars, selVars, domVars, mediaVars, poolVars, moreVars >>

NoteNext == ReconcileNote

NoteSpecInit == UserIdle /\ SelIdle /\ NoteInit /\ DomIdle /\ MediaIdle /\ PoolIdle /\ MoreIdle

NoteSpec == NoteSpecInit /\ [][NoteNext]_vars

\* ------------------------------------------------ claims on the reconciler
\* the record yields a still-image URL / a video URL
HasStill(img) == img.url_list # None /\ img.url_list[1] # << >>
HasVideo(img) == img.video # None /\ img.video[1] # << >>
\* the places of the output items derived from input record i
ItemsOf(i) == { k \in 1 .. Len(items) : items[k].image_url.of = i }

\* C13 (as stated): the output item list has the same length as the input
\* and output[i] is derived from input[i] for every i.
C13_SameLengthSameOrder ==
  note_pc = "done" =>
    /\ Len(items) = Len(images)
    /\ \A i \in 1 .. Len(items) : items[i].image_url.of = i

\* C13 (amended): the output holds exactly one item for every input record
\* that yields a still-image URL and none for the others, in input order:
\* nothing is duplicated or reordered, and a record is dropped exactly when
\* it has no still-image URL.
C13_OneItemPerStillInOrder ==
  note_pc = "done" =>
    /\ \A i \in 1 .. Len(images) :
         Cardinality(ItemsOf(i)) = IF HasStill(images[i]) THEN 1 ELSE 0
    /\ \A k \in 1 .. Len(items) : items[k].image_url.of \in 1 .. Len(images)
    /\ \A k \in 1 .. Len(items) - 1 :
         items[k].image_url.of < items[k + 1].image_url.of

\* three records, the middle one without a still image: two items come out
C13_Witness ==
  /\ note_pc = "done" /\ Len(images) = 3 /\ Len(items) = 2
  /\ ~HasStill(images[2])
  /\ items[1].image_url.of = 1 /\ items[2].image_url.of = 3

\* C14 (as stated): a record gets an animated_image item exactly when it
\* yields both a still-image URL and a video URL, and an image item
\* otherwise; a record without video rendition never gets an animated_image.
C14_AnimatedIffBothElseImage ==
  note_pc = "done" =>
    \A i \in 1 .. Len(images) :
      LET both == HasStill(images[i]) /\ HasVideo(images[i])
      IN /\ (\E k \in ItemsOf(i) : items[k].type = "animated_image") <=> both
         /\ ~both => \E k \in ItemsOf(i) : items[k].type = "image"

\* C14 (amended): a record gets an animated_image item, carrying its still
\* image and its video, exactly when it yields both URLs; an image item
\* exactly when it yields a still-image URL and no video URL; and no item
\* when it yields no still-image URL.
C14_AnimatedIffBothImageIffStillOnly ==
  note_pc = "done" =>
    \A i \in 1 .. Len(images) :
      LET still == HasStill(images[i])
          video == HasVideo(images[i])
      IN /\ (\E k \in ItemsOf(i) : items[k].type = "animated_image") <=> (still /\ video)
         /\ (\E k \in ItemsOf(i) : items[k].type = "image") <=> (still /\ ~video)
         /\ \A k \in ItemsOf(i) :
              items[k].type = "animated_image" =>
                /\ items[k].video_url.of = i
                /\ Some(items[k].video_url) = NoteVideoUrl(images[i])

\* an animated record, a record whose video url_list is empty, and a record
\* with a video but no still image
C14_Witness ==
  /\ note_pc = "done" /\ Len(images) = 3
  /\ HasStill(images[1]) /\ HasVideo(images[1])
  /\ HasStill(images[2]) /\ images[2].video = Some(<< >>)
  /\ ~HasStill(images[3]) /\ HasVideo(images[3])
  /\ Len(items) = 2
  /\ items[1].type = "animated_image" /\ items[2].type = "image"

\* the places of url_list whose URL holds the marker
PlacesWith(url_list, marker) ==
  { k \in 1 .. Len(url_list) : Contains(url_list[k].host, marker) }

FirstAt(url_list, places) == url_list[CHOOSE k \in places : \A h \in places : k <= h]

\* C25: the video URL of a note record is the first candidate that holds
\* 'v3-web.douyinvod' if there is one, otherwise the first candidate that
\* holds 'douyinvod' if there is one, otherwise the first candidate.
C25_VideoUrlThreeTiers ==
  note_pc = "done" =>
    \A i \in 1 .. Len(images) :
      (HasStill(images[i]) /\ HasVideo(images[i])) =>
        LET url_list == images[i].video[1]
            v3 == PlacesWith(url_list, "v3-web.douyinvod")
            vod == PlacesWith(url_list, "douyinvod")
        IN \A k \in ItemsOf(i) :
             items[k].video_url = IF v3 # {} THEN FirstAt(url_list, v3)
                                  ELSE IF vod # {} THEN FirstAt(url_list, vod)
                                  ELSE url_list[1]

\* ==================================================== DOM image extraction
\* A URL string is the sequence of its pieces; `x in url` is the presence of
\* the piece x, and split works on the pieces "?" and "~".
Has(url, piece) == \E i \in 1 .. Len(url) : url[i] = piece

\* url.split(sep)[0]
SplitFirst(url, sep) ==
  IF Has(url, sep)
  THEN SubSeq(url, 1, (CHOOSE i \in 1 .. Len(url) :
                         url[i] = sep /\ \A j \in 1 .. i - 1 : url[j] # sep) - 1)
  ELSE url

\* the URLs a note page can show
ContentPath(name) == << "https:", "//", "douyinpic", "/", "tos-cn-i-0813", "/", name >>
SignedQuery == << "?", "biz_tag=aweme_images", "&", "x-signature" >>
DomUrls ==
  { ContentPath("a") \o << "~", "s1" >> \o SignedQuery,
    ContentPath("a") \o << "~", "s2" >> \o SignedQuery,
    ContentPath("a") \o SignedQuery \o << "&", "x-expires", "~", "s1" >>,
    ContentPath("b") \o SignedQuery,
    Tail(ContentPath("b") \o SignedQuery),
    ContentPath("d") \o SignedQuery,
    ContentPath("a") \o SignedQuery \o << "&", "sticker" >>,
    ContentPath("c") \o << "?", "biz_tag=aweme_images" >>,
    << "https:", "//", "othercdn", "/", "tos-cn-i-0813", "/", "a" >> \o SignedQuery }

\* a Python set iterates its members in some order, each once
UrlOrders ==
  { o \in SeqsUpTo(DomUrls, MaxUrls) : \A i, j \in 1 .. Len(o) : o[i] = o[j] => i = j }

\* `if url.startswith('//'): url = 'https:' + url`
EnsureHttps(url) == IF url[1] = "//" THEN << "https:" >> \o url ELSE url

\* the filter for main content images with valid signatures
IsContentImage(url) ==
  /\ Has(url, "douyinpic")
  /\ Has(url, "biz_tag=aweme_images") \/ Has(url, "biz_tag=pcweb_cover")
  /\ Has(url, "x-expires") \/ Has(url, "x-signature")
  /\ ~Has(url, "sticker") /\ ~Has(url, "aweme_comment")
  /\ Has(url, "tos-cn-i-0813")

\* the `for url in all_urls` loop from place i on
RECURSIVE ContentImages(_, _)
ContentImages(urls, i) ==
  IF i > Len(urls) THEN << >>
  ELSE LET url == EnsureHttps(urls[i])
       IN (IF IsContentImage(url) THEN << url >> ELSE << >>) \o ContentImages(urls, i + 1)

\* a bug variant of BaseOf: only the query string is stripped
BaseOfQueryOnly(url) == SplitFirst(url, "?")

\* `base = url.split('?')[0].split('~')[0]`
BaseOf(url) == SplitFirst(SplitFirst(url, "?"), "~")

\* the `for url in content_images` loop from place i on
RECURSIVE UniqueImages(_, _, _, _)
UniqueImages(content_images, i, seen_bases, unique) ==
  IF i > Len(content_images) THEN unique
  ELSE LET url == content_images[i]
           base == BaseOf(url)
       IN IF base \notin seen_bases
          THEN UniqueImages(content_images, i + 1, seen_bases \cup {base}, Append(unique, url))
          ELSE UniqueImages(content_images, i + 1, seen_bases, unique)

\* extract_images_from_dom, given all_urls in iteration order
extract_images_from_dom(urls) == UniqueImages(ContentImages(urls, 1), 1, {}, << >>)

DomInit == dom_pc = "call" /\ all_urls \in UrlOrders /\ unique_images = << >>

ExtractImagesFromDom ==
  /\ dom_pc = "call"
  /\ dom_pc' = "done"
  /\ unique_images' = extract_images_from_dom(all_urls)
  /\ UNCHANGED << all_urls, userVars, selVars, noteVars, mediaVars, poolVars, moreVars >>

DomNext == ExtractImagesFromDom

DomSpecInit == UserIdle /\ SelIdle /\ NoteIdle /\ DomInit /\ MediaIdle /\ PoolIdle /\ MoreIdle

DomSpec == DomSpecInit /\ [][DomNext]_vars

\* ------------------------------------------- claims on the DOM extraction
\* the URL with everything from the first "?" and from the first "~" stripped
BasePath(url) ==
  LET stops == { i \in 1 .. Len(url) : url[i] \in {"?", "~"} }
  IN IF stops = {} THEN url
     ELSE SubSeq(url, 1, (CHOOSE i \in stops : \A j \in stops : i <= j) - 1)
\* the URLs of the page that pass the content filter
PassingUrls ==
  { EnsureHttps(all_urls[i]) : i \in { j \in 1 .. Len(all_urls) :
                                        IsContentImage(EnsureHttps(all_urls[j])) } }

\* C18: extract_images_from_dom returns no two URLs with the same base path,
\* and every base path present among the URLs that pass the content filter
\* is represented by exactly one returned URL.
C18_OneUrlPerBasePath ==
  dom_pc = "done" =>
    /\ \A i, j \in 1 .. Len(unique_images) :
         BasePath(unique_images[i]) = BasePath(unique_images[j]) => i = j
    /\ \A i \in 1 .. Len(unique_images) : unique_images[i] \in PassingUrls
    /\ \A u \in PassingUrls :
         \E i \in 1 .. Len(unique_images) : BasePath(unique_images[i]) = BasePath(u)

\* three passing URLs, two of them sharing a base path and differing in the
\* "~" suffix, collapse to two
C18_Witness ==
  /\ dom_pc = "done"
  /\ Cardinality(PassingUrls) = 3
  /\ \E u, v \in PassingUrls :
       u # v /\ BasePath(u) = BasePath(v) /\ SplitFirst(u, "?") # SplitFirst(v, "?")
  /\ Len(unique_images) = 2

\* ==================================================== DOM video extraction
\* A <source> URL: its host, and the id its path carries after
\* /video/tos/cn/tos-cn-ve-15/ (0: the path does not match the pattern).
VideoSources ==
  [host : {"v3-web.douyinvod", "douyinvod", "vodcdn"}, video_id : 0 .. MaxVideoIds]
SourceLists == SeqsUpTo(VideoSources, MaxSources)

\* `if src and 'douyinvod' in src`
IsVod(src) == Contains(src.host, "douyinvod")

\* the `for url in video_sources` loop from place i on
RECURSIVE UniqueVideos(_, _, _, _)
UniqueVideos(video_sources, i, seen_videos, unique) ==
  IF i > Len(video_sources) THEN unique
  ELSE LET url == video_sources[i]
           video_id == url.video_id
           v3_exists == \E k \in 1 .. Len(video_sources) :
                          /\ Contains(video_sources[k].host, "v3-web.douyinvod")
                          /\ video_sources[k].video_id = video_id
           kept == Contains(url.host, "v3-web.douyinvod") \/ ~v3_exists
       IN IF video_id # 0 /\ video_id \notin seen_videos
          THEN UniqueVideos(video_sources, i + 1, seen_videos \cup {video_id},
                            IF kept THEN Append(unique, url) ELSE unique)
          ELSE UniqueVideos(video_sources, i + 1, seen_videos, unique)

\* extract_videos_from_dom, given the src of every <source> in page order
extract_videos_from_dom(sources) ==
  UniqueVideos(SelectSeq(sources, IsVod), 1, {}, << >>)

VdomInit == vdom_pc = "call" /\ page_sources \in SourceLists /\ unique_videos = << >>

ExtractVideosFromDom ==
  /\ vdom_pc = "call"
  /\ vdom_pc' = "done"
  /\ unique_videos' = extract_videos_from_dom(page_sources)
  /\ UNCHANGED page_sources
  /\ UNCHANGED notVdom

VdomNext == ExtractVideosFromDom

VdomSpecInit == IdleButVdom /\ VdomInit

VdomSpec == VdomSpecInit /\ [][VdomNext]_vars

\* --------------------------------------- claims on DOM video extraction
\* the douyinvod sources of the page that carry the video id
SourcesOf(id) ==
  { k \in 1 .. Len(page_sources) : IsVod(page_sources[k]) /\ page_sources[k].video_id = id }

\* C26: extract_videos_from_dom returns exactly one URL for every distinct
\* video id among the douyinvod sources, in whatever order the sources come,
\* and that URL is a v3-web one whenever the id has a v3-web source.
C26_OneUrlPerVideoId ==
  vdom_pc = "done" =>
    \A id \in 1 .. MaxVideoIds :
      SourcesOf(id) # {} =>
        LET out == { k \in 1 .. Len(unique_videos) : unique_videos[k].video_id = id }
        IN /\ Cardinality(out) = 1
           /\ (\E s \in SourcesOf(id) : page_sources[s].host = "v3-web.douyinvod") =>
                \A k \in out : unique_videos[k].host = "v3-web.douyinvod"

\* ======================================================== get_douyin_media
ContentTypes == {"video", "note", "unknown"}

\* payloads the session hands to get_douyin_media
MediaDetails ==
  { d \in VideoDetails : d = None \/ Len(d[1].bit_rate) <= MaxMediaVariants }
MediaImageLists == { l \in ImageLists : Len(l) <= MaxMediaImages }

\* how `with page.expect_response(...)` and the decoding after it end: an
\* exception (timeout, navigation error), a payload without "aweme_detail",
\* or a payload whose aweme_detail is `detail`
InterceptOutcomes ==
  [raised : {TRUE}, has_detail : {FALSE}, detail : {None}] \cup
  [raised : {FALSE}, has_detail : {FALSE}, detail : {None}] \cup
  [raised : {FALSE}, has_detail : {TRUE}, detail : MediaDetails]

\* what extract_note_from_api returns: None, or its items
NoteApiOutcomes == {None} \cup { Some(NoteItems(l, 1, << >>)) : l \in MediaImageLists }

ImagesResult(its) == [type |-> "images", items |-> its]

\* a bug variant of NeedsDirect: the direct request is always issued
NeedsDirectAlways(res) == TRUE

\* `if not result and content_id` (content_id is set whenever content_type is)
NeedsDirect(res) == res = None

\* a bug variant of DomItems: the still images come first
DomItemsImagesFirst(imgs, vids) ==
  [i \in 1 .. Len(imgs) |-> [type |-> "image", image_url |-> imgs[i]]] \o
  [i \in 1 .. Len(vids) |-> [type |-> "animated_image", video_url |-> vids[i]]]

\* the items of the DOM fallback
DomItems(imgs, vids) ==
  IF vids # << >>
  THEN [i \in 1 .. Len(vids) |->
          IF i <= Len(imgs)
          THEN [type |-> "animated_image", video_url |-> vids[i], image_url |-> imgs[i]]
          ELSE [type |-> "animated_image", video_url |-> vids[i]]] \o
       [i \in 1 .. Len(imgs) - Len(vids) |->
          [type |-> "image", image_url |-> imgs[Len(vids) + i]]]
  ELSE [i \in 1 .. Len(imgs) |-> [type |-> "image", image_url |-> imgs[i]]]

notMedia == << userVars, selVars, noteVars, domVars, poolVars, moreVars >>

MediaInit ==
  /\ m_pc = "start" /\ content_type \in ContentTypes /\ media_result = None
  /\ media_ret = "pending" /\ context_open = FALSE /\ detail_calls = 0
  /\ dom_images = << >> /\ dom_videos = << >>
  /\ intercept = "none" /\ direct = "none" /\ via = "none" /\ lacking = FALSE

\* the playwright import
MediaStart(import_ok) ==
  /\ m_pc = "start"
  /\ IF import_ok
     THEN m_pc' = "open" /\ UNCHANGED media_ret
     ELSE m_pc' = "done" /\ media_ret' = "value"
  /\ UNCHANGED << content_type, media_result, context_open, detail_calls, dom_images,
                  dom_videos, intercept, lacking, direct, via >>
  /\ UNCHANGED notMedia

\* get_browser, new_context, new_page and route, before the try block;
\* `failing` names the call that raises ("none": all succeed)
OpenContext(failing) ==
  /\ m_pc = "open"
  /\ IF failing = "none"
     THEN m_pc' = "try" /\ context_open' = TRUE /\ UNCHANGED media_ret
     ELSE /\ m_pc' = "done"
          /\ media_ret' = "raised"
          /\ context_open' = (failing \in {"new_page", "route"})
  /\ UNCHANGED << content_type, media_result, detail_calls, dom_images, dom_videos,
                  intercept, lacking, direct, via >>
  /\ UNCHANGED notMedia

\* video page: the interception attempt
VideoIntercept(outcome) ==
  /\ m_pc = "try" /\ content_type = "video"
  /\ media_result' = IF outcome.raised \/ ~outcome.has_detail THEN None
                     ELSE parse_video_detail(outcome.detail)
  /\ intercept' = IF media_result' # None THEN "result" ELSE "no_result"
  /\ lacking' = (~outcome.raised /\ (~outcome.has_detail \/ outcome.detail = None))
  /\ via' = IF media_result' # None THEN "video" ELSE via
  /\ m_pc' = "video_direct"
  /\ UNCHANGED << content_type, media_ret, context_open, detail_calls, dom_images,
                  dom_videos, direct >>
  /\ UNCHANGED notMedia

\* video page: the direct API call if interception failed; `d` is what
\* _call_detail_api returns (None also when its evaluate raises)
VideoDirect(d) ==
  /\ m_pc = "video_direct"
  /\ IF NeedsDirect(media_result)
     THEN /\ detail_calls' = detail_calls + 1
          /\ media_result' = IF d # None THEN parse_video_detail(d) ELSE media_result
          /\ direct' = IF media_result' # None THEN "playable" ELSE "nothing"
          /\ via' = IF media_result' # None THEN "video" ELSE via
     ELSE UNCHANGED << detail_calls, media_result, direct, via >>
  /\ m_pc' = "finally"
  /\ UNCHANGED << content_type, media_ret, context_open, dom_images, dom_videos, intercept, lacking >>
  /\ UNCHANGED notMedia

\* note page: navigation; an exception goes to `except Exception`
NoteGoto(ok) ==
  /\ m_pc = "try" /\ content_type = "note"
  /\ m_pc' = IF ok THEN "note_api" ELSE "finally"
  /\ UNCHANGED << content_type, media_result, media_ret, context_open, detail_calls,
                  dom_images, dom_videos, intercept, lacking, direct, via >>
  /\ UNCHANGED notMedia

\* note page: extract_note_from_api and the result built from it
NoteApi(api_result) ==
  /\ m_pc = "note_api"
  /\ IF api_result # None /\ api_result[1] # << >>
     THEN /\ media_result' = Some(ImagesResult(api_result[1]))
          /\ via' = "note_api"
          /\ m_pc' = "finally"
     ELSE /\ m_pc' = "note_dom"
          /\ UNCHANGED << media_result, via >>
  /\ UNCHANGED << content_type, media_ret, context_open, detail_calls, dom_images,
                  dom_videos, intercept, lacking, direct >>
  /\ UNCHANGED notMedia

\* note page: the DOM fallback; a DOM query that raises goes to `except Exception`
NoteDom(ok, urls, sources) ==
  /\ m_pc = "note_dom"
  /\ IF ok
     THEN LET imgs == extract_images_from_dom(urls)
              vids == extract_videos_from_dom(sources)
              its == DomItems(imgs, vids)
          IN /\ dom_images' = imgs
             /\ dom_videos' = vids
             /\ media_result' = IF its # << >> THEN Some(ImagesResult(its)) ELSE media_result
             /\ via' = "note_dom"
     ELSE UNCHANGED << dom_images, dom_videos, media_result, via >>
  /\ m_pc' = "finally"
  /\ UNCHANGED << content_type, media_ret, context_open, detail_calls, intercept, lacking, direct >>
  /\ UNCHANGED notMedia

\* unknown type: navigation with the response handler of extract_video_from_api
\* attached, the polling loop and the result built from found_data; `final`
\* tells what page.url holds, `d` is the aweme_detail the handler saw
UnknownGoto(ok, final, d) ==
  /\ m_pc = "try" /\ content_type = "unknown"
  /\ LET found == parse_video_detail(d)
     IN IF ~ok THEN m_pc' = "finally" /\ UNCHANGED << media_result, via >>
        ELSE IF final \in {"/video/", "/video/id"}
        THEN IF found # None
             THEN media_result' = found /\ via' = "unknown" /\ m_pc' = "finally"
             ELSE /\ m_pc' = IF final = "/video/id" THEN "unknown_direct" ELSE "finally"
                  /\ UNCHANGED << media_result, via >>
        ELSE /\ m_pc' = IF final = "/note/id" THEN "unknown_note" ELSE "finally"
             /\ UNCHANGED << media_result, via >>
  /\ UNCHANGED << content_type, media_ret, context_open, detail_calls, dom_images,
                  dom_videos, intercept, lacking, direct >>
  /\ UNCHANGED notMedia

\* unknown type: the direct API call for a video page
UnknownDirect(d) ==
  /\ m_pc = "unknown_direct"
  /\ detail_calls' = detail_calls + 1
  /\ media_result' = IF d # None THEN parse_video_detail(d) ELSE media_result
  /\ direct' = IF media_result' # None THEN "playable" ELSE "nothing"
  /\ via' = IF media_result' # None THEN "unknown" ELSE via
  /\ m_pc' = "finally"
  /\ UNCHANGED << content_type, media_ret, context_open, dom_images, dom_videos, intercept, lacking >>
  /\ UNCHANGED notMedia

\* unknown type: extract_note_from_api for a note page
UnknownNote(api_result) ==
  /\ m_pc = "unknown_note"
  /\ IF api_result # None /\ api_result[1] # << >>
     THEN media_result' = Some(ImagesResult(api_result[1])) /\ via' = "unknown"
     ELSE UNCHANGED << media_result, via >>
  /\ m_pc' = "finally"
  /\ UNCHANGED << content_type, media_ret, context_open, detail_calls, dom_images,
                  dom_videos, intercept, lacking, direct >>
  /\ UNCHANGED notMedia

\* `finally: context.close()` and `return result`
MediaFinally ==
  /\ m_pc = "finally"
  /\ context_open' = FALSE
  /\ media_ret' = "value"
  /\ m_pc' = "done"
  /\ UNCHANGED << content_type, media_result, detail_calls, dom_images, dom_videos,
                  intercept, lacking, direct, via >>
  /\ UNCHANGED notMedia

MediaNext ==
  \/ \E import_ok \in BOOLEAN : MediaStart(import_ok)
  \/ \E failing \in {"none", "get_browser", "new_context", "new_page", "route"} :
       OpenContext(failing)
  \/ \E outcome \in InterceptOutcomes : VideoIntercept(outcome)
  \/ \E d \in MediaDetails : VideoDirect(d)
  \/ \E ok \in BOOLEAN : NoteGoto(ok)
  \/ \E api_result \in NoteApiOutcomes : NoteApi(api_result)
  \/ \E ok \in BOOLEAN, urls \in UrlOrders, sources \in SourceLists :
       NoteDom(ok, urls, sources)
  \/ \E ok \in BOOLEAN, final \in {"/video/id", "/video/", "/note/id", "/note/", "other"},
        d \in MediaDetails : UnknownGoto(ok, final, d)
  \/ \E d \in MediaDetails : UnknownDirect(d)
  \/ \E api_result \in NoteApiOutcomes : UnknownNote(api_result)
  \/ MediaFinally

MediaSpecInit == UserIdle /\ SelIdle /\ NoteIdle /\ DomIdle /\ MediaInit /\ PoolIdle /\ MoreIdle

MediaSpec == MediaSpecInit /\ [][MediaNext]_vars

\* ------------------------------------------- claims on get_douyin_media
MediaReturned == m_pc = "done" /\ media_ret = "value"
DirectCalled == detail_calls' > detail_calls

HasKey(item, key) == key \in DOMAIN item
FullyPopulated(res) ==
  /\ res.type \in {"video", "images"}
  /\ res.items # << >>
  /\ \A i \in 1 .. Len(res.items) :
       LET item == res.items[i]
       IN CASE item.type = "video" -> HasKey(item, "video_url")
            [] item.type = "image" -> HasKey(item, "image_url")
            [] item.type = "animated_image" ->
                 HasKey(item, "image_url") /\ HasKey(item, "video_url")
            [] OTHER -> FALSE

\* C15: every value get_douyin_media returns, on every exit path, is null or
\* a fully populated result: type is video or images, items is non-empty,
\* a video item has a video_url, an image item an image_url, and an
\* animated_image item both an image_url and a video_url.
C15_NullOrFullyPopulated ==
  MediaReturned => (media_result = None \/ FullyPopulated(media_result[1]))

\* C16: on a video page the direct detail request is issued at most once and
\* only after the interception attempt ended without a result; if the direct
\* request yields no playable video either, the call returns null.
C16_OneDirectCallAfterFailedInterception ==
  /\ [](content_type = "video" => detail_calls <= 1)
  /\ [][(content_type = "video" /\ DirectCalled) =>
          (intercept = "no_result" /\ detail_calls = 0)]_vars
  /\ []((MediaReturned /\ content_type = "video" /\ direct = "nothing") =>
          media_result = None)
  /\ []((MediaReturned /\ content_type = "video" /\ intercept = "result") =>
          (detail_calls = 0 /\ media_result # None))

\* interception ended without a result, the one direct request gave nothing
\* playable, and the call returned null
C16_Witness ==
  /\ MediaReturned /\ content_type = "video"
  /\ intercept = "no_result" /\ detail_calls = 1 /\ direct = "nothing"
  /\ media_result = None

\* C17: in the note DOM fallback, with N filtered video URLs and at least N
\* filtered image URLs, the output is N animated_image items, the i-th
\* pairing video[i] with image[i], followed by the surplus images as image
\* items in their order.
C17_VideosPairedThenSurplusImages ==
  (via = "note_dom" /\ Len(dom_videos) <= Len(dom_images)) =>
    LET its == IF media_result = None THEN << >> ELSE media_result[1].items
    IN /\ Len(its) = Len(dom_images)
       /\ \A i \in 1 .. Len(its) :
            its[i] = IF i <= Len(dom_videos)
                     THEN [type |-> "animated_image", image_url |-> dom_images[i],
                           video_url |-> dom_videos[i]]
                     ELSE [type |-> "image", image_url |-> dom_images[i]]

\* scenario B: 3 images and 1 video give animated_image(image[0], video),
\* image(image[1]), image(image[2])
C17_Witness ==
  /\ MediaReturned /\ via = "note_dom"
  /\ Len(dom_images) = 3 /\ Len(dom_videos) = 1
  /\ media_result # None
  /\ media_result[1].items =
       << [type |-> "animated_image", image_url |-> dom_images[1],
           video_url |-> dom_videos[1]],
          [type |-> "image", image_url |-> dom_images[2]],
          [type |-> "image", image_url |-> dom_images[3]] >>

\* C20: every browsing context a resolution call opened is closed by the
\* time the call returns or raises, on every path.
C20_ContextClosedAtExit == m_pc = "done" => ~context_open

\* ================================================ BrowserPool.get_browser
\* Threads call get_browser concurrently; a step is one read or one write of
\* a class attribute, the grain at which the interpreter switches threads.
\* A launched browser stays connected.
Threads == 1 .. NumThreads
notPool == << userVars, selVars, noteVars, domVars, mediaVars, moreVars >>

PoolInit ==
  /\ cls_lock = 0 /\ cls_browser = 0
  /\ held = [l \in 1 .. NumThreads |-> 0]
  /\ locks_made = 0 /\ launched = 0
  /\ t_pc = [t \in Threads |-> "check"]
  /\ t_lock = [t \in Threads |-> 0]
  /\ t_got = [t \in Threads |-> 0]

\* `if cls._browser and cls._browser.is_connected(): return ...`, before the lock
FirstCheck(t) ==
  /\ t_pc[t] = "check"
  /\ IF cls_browser # 0
     THEN t_got' = [t_got EXCEPT ![t] = cls_browser] /\ t_pc' = [t_pc EXCEPT ![t] = "done"]
     ELSE t_pc' = [t_pc EXCEPT ![t] = "lock_test"] /\ UNCHANGED t_got
  /\ UNCHANGED << cls_lock, cls_browser, held, locks_made, launched, t_lock >>
  /\ UNCHANGED notPool

\* _get_lock: `if cls._lock is None`
LockTest(t) ==
  /\ t_pc[t] = "lock_test"
  /\ t_pc' = [t_pc EXCEPT ![t] = IF cls_lock = 0 THEN "lock_make" ELSE "lock_return"]
  /\ UNCHANGED << cls_lock, cls_browser, held, locks_made, launched, t_lock, t_got >>
  /\ UNCHANGED notPool

\* _get_lock: `cls._lock = threading.Lock()`
LockMake(t) ==
  /\ t_pc[t] = "lock_make"
  /\ locks_made' = locks_made + 1
  /\ cls_lock' = locks_made + 1
  /\ t_pc' = [t_pc EXCEPT ![t] = "lock_return"]
  /\ UNCHANGED << cls_browser, held, launched, t_lock, t_got >>
  /\ UNCHANGED notPool

\* _get_lock: `return cls._lock`
LockReturn(t) ==
  /\ t_pc[t] = "lock_return"
  /\ t_lock' = [t_lock EXCEPT ![t] = cls_lock]
  /\ t_pc' = [t_pc EXCEPT ![t] = "acquire"]
  /\ UNCHANGED << cls_lock, cls_browser, held, locks_made, launched, t_got >>
  /\ UNCHANGED notPool

\* `with cls._get_lock():` entering, once the lock is free
Acquire(t) ==
  /\ t_pc[t] = "acquire"
  /\ held[t_lock[t]] = 0
  /\ held' = [held EXCEPT ![t_lock[t]] = t]
  /\ t_pc' = [t_pc EXCEPT ![t] = "recheck"]
  /\ UNCHANGED << cls_lock, cls_browser, locks_made, launched, t_lock, t_got >>
  /\ UNCHANGED notPool

\* the double check inside the lock
SecondCheck(t) ==
  /\ t_pc[t] = "recheck"
  /\ IF cls_browser # 0
     THEN /\ t_got' = [t_got EXCEPT ![t] = cls_browser]
          /\ held' = [held EXCEPT ![t_lock[t]] = 0]
          /\ t_pc' = [t_pc EXCEPT ![t] = "done"]
     ELSE /\ t_pc' = [t_pc EXCEPT ![t] = "launch"]
          /\ UNCHANGED << t_got, held >>
  /\ UNCHANGED << cls_lock, cls_browser, locks_made, launched, t_lock >>
  /\ UNCHANGED notPool

\* `cls._browser = cls._playwright.chromium.launch(headless=True)`
Launch(t) ==
  /\ t_pc[t] = "launch"
  /\ launched' = launched + 1
  /\ cls_browser' = launched + 1
  /\ t_pc' = [t_pc EXCEPT ![t] = "return"]
  /\ UNCHANGED << cls_lock, held, locks_made, t_lock, t_got >>
  /\ UNCHANGED notPool

\* `return cls._playwright, cls._browser`, leaving the `with` block
ReturnBrowser(t) ==
  /\ t_pc[t] = "return"
  /\ t_got' = [t_got EXCEPT ![t] = cls_browser]
  /\ held' = [held EXCEPT ![t_lock[t]] = 0]
  /\ t_pc' = [t_pc EXCEPT ![t] = "done"]
  /\ UNCHANGED << cls_lock, cls_browser, locks_made, launched, t_lock >>
  /\ UNCHANGED notPool

PoolNext ==
  \/ \E t \in Threads : FirstCheck(t)
  \/ \E t \in Threads : LockTest(t)
  \/ \E t \in Threads : LockMake(t)
  \/ \E t \in Threads : LockReturn(t)
  \/ \E t \in Threads : Acquire(t)
  \/ \E t \in Threads : SecondCheck(t)
  \/ \E t \in Threads : Launch(t)
  \/ \E t \in Threads : ReturnBrowser(t)

PoolSpecInit == UserIdle /\ SelIdle /\ NoteIdle /\ DomIdle /\ MediaIdle /\ PoolInit /\ MoreIdle

PoolSpec == PoolSpecInit /\ [][PoolNext]_vars

\* ------------------------------------------------ claims on the BrowserPool
\* C19: under any interleaving of concurrent get_browser calls, starting
\* from an uninitialised pool, at most one browser is launched and every
\* caller receives that same browser.
C19_OneBrowserForAllCallers ==
  /\ launched <= 1
  /\ \A t, u \in Threads :
       (t_pc[t] = "done" /\ t_pc[u] = "done") => t_got[t] = t_got[u]

\* ---------------------------------------- cookies of concurrent requests
\* Every request of the user API runs _try_xhr_pagination in a thread of its
\* own; all of them take their contexts from the one shared browser.
Requests == 1 .. NumRequests

Cookies == [name : {"sessionid", "ttwid"}, value : 1 .. NumCookieValues]

CookieLists == SeqsUpTo(Cookies, MaxCookies)

CookieSet(cookies) == { cookies[i] : i \in DOMAIN cookies }

\* browser.new_context(): a fresh context with an empty cookie jar
new_context(ctxs, r) == Append(ctxs, [owner |-> r, cookies |-> {}, open |-> TRUE])

\* a bug variant of add_cookies: every context of the browser gets the cookies
add_cookies_everywhere(ctxs, i, cookies) ==
  [j \in DOMAIN ctxs |-> [ctxs[j] EXCEPT !.cookies = @ \cup CookieSet(cookies)]]

\* context.add_cookies(cookies): the jar of this one context grows
add_cookies(ctxs, i, cookies) ==
  [ctxs EXCEPT ![i].cookies = @ \cup CookieSet(cookies)]

CookieInit ==
  /\ rq_pc = [r \in Requests |-> "call"]
  /\ rq_cookies \in [Requests -> CookieLists]
  /\ rq_ctx = [r \in Requests |-> 0]
  /\ contexts = << >>
  /\ sent_cookies = [r \in Requests |-> None]

\* _create_user_page_context up to new_context
NewContext(r) ==
  /\ rq_pc[r] = "call"
  /\ contexts' = new_context(contexts, r)
  /\ rq_ctx' = [rq_ctx EXCEPT ![r] = Len(contexts) + 1]
  /\ rq_pc' = [rq_pc EXCEPT ![r] = "add_cookies"]
  /\ UNCHANGED << rq_cookies, sent_cookies >>
  /\ UNCHANGED notCookie

\* `if cookies: context.add_cookies(cookies)` and the rest of the helper
AddCookies(r) ==
  /\ rq_pc[r] = "add_cookies"
  /\ contexts' = IF rq_cookies[r] # << >>
                 THEN add_cookies(contexts, rq_ctx[r], rq_cookies[r])
                 ELSE contexts
  /\ rq_pc' = [rq_pc EXCEPT ![r] = "loop"]
  /\ UNCHANGED << rq_cookies, rq_ctx, sent_cookies >>
  /\ UNCHANGED notCookie

\* one list fetch issued from the page of the request's context: the
\* browser attaches the jar of that context
ListFetch(r) ==
  /\ rq_pc[r] = "loop"
  /\ sent_cookies' = [sent_cookies EXCEPT ![r] = Some(contexts[rq_ctx[r]].cookies)]
  /\ UNCHANGED << rq_pc, rq_cookies, rq_ctx, contexts >>
  /\ UNCHANGED notCookie

\* the `finally` of _try_xhr_pagination
CloseContext(r) ==
  /\ rq_pc[r] = "loop"
  /\ contexts' = [contexts EXCEPT ![rq_ctx[r]].open = FALSE]
  /\ rq_pc' = [rq_pc EXCEPT ![r] = "done"]
  /\ UNCHANGED << rq_cookies, rq_ctx, sent_cookies >>
  /\ UNCHANGED notCookie

CookieNext ==
  \/ \E r \in Requests : NewContext(r)
  \/ \E r \in Requests : AddCookies(r)
  \/ \E r \in Requests : ListFetch(r)
  \/ \E r \in Requests : CloseContext(r)

CookieSpecInit == IdleButCookie /\ CookieInit

CookieSpec == CookieSpecInit /\ [][CookieNext]_vars

UrlInputs ==
  {"absent", "", "ftp://www.douyin.com/user/1",
   "https://www.douyin.com/video/1", "https://www.douyin.com/user/1"}

\* the cookie query parameter of the user endpoint: absent, a raw cookie
\* string, a cookie file load_cookies reads, a file it fails on (unreadable,
\* not UTF-8, or a JSON list whose members are not objects)
CookieArgs == {"absent", "", "sessionid=1", "cookies.json", "broken.json"}

ApiRequests ==
  [endpoint : {"media"}, url : UrlInputs, max : {None}, cookie : {"absent"}]
    \cup [endpoint : {"user"}, url : UrlInputs, max : MaxWorksInputs, cookie : CookieArgs]

\* what the extraction function does when it is reached: it raises, returns
\* None, or returns a result dict
ExtractionOutcomes == {"raised", "none", "value"}

ExtractionResults == [works_count : 1 .. 2]

Truthy(text) == text \notin {"absent", ""}

StartsWithHttp(url) == url \in {"https://www.douyin.com/video/1", "https://www.douyin.com/user/1"}

HasUserPath(url) == url \in {"ftp://www.douyin.com/user/1", "https://www.douyin.com/user/1"}

\* load_cookies: the files it cannot read make it raise
LoadCookiesRaises(cookie_arg) == cookie_arg = "broken.json"

\* _get_cookies raises when it has to load and the load raises
GetCookiesRaises(cookie_arg) == Truthy(cookie_arg) /\ LoadCookiesRaises(cookie_arg)

error_response(code, message) ==
  [shape |-> "envelope", status |-> code, code |-> code, message |-> message, data |-> None]

success_response(data) ==
  [shape |-> "envelope", status |-> 200, code |-> 0, message |-> "success", data |-> Some(data)]

\* the API info dict returned when no url is given
InfoResponse ==
  [shape |-> "info", status |-> 200, code |-> 0, message |-> "info", data |-> None]

\* an exception leaves `root`: the framework answers 500 with its own body
UnhandledResponse ==
  [shape |-> "unhandled", status |-> 500, code |-> 500,
   message |-> "Internal Server Error", data |-> None]

\* the part both handlers share: the try around the extraction and the
\* test of its result
AfterExtraction(outcome, value, nothing) ==
  IF outcome = "raised" THEN error_response(500, "Extraction failed: exception")
  ELSE IF outcome = "none" THEN error_response(500, nothing)
  ELSE success_response(value)

\* root of douyin_phaser_api.py
MediaRoot(req, outcome, value) ==
  IF ~Truthy(req.url) THEN InfoResponse
  ELSE IF ~StartsWithHttp(req.url)
  THEN error_response(400, "Invalid URL format, must start with http/https")
  ELSE AfterExtraction(outcome, value, "Extraction failed: no media found")

\* root of douyin_user_phaser_api.py
UserRoot(req, outcome, value) ==
  IF ~Truthy(req.url) THEN InfoResponse
  ELSE IF ~StartsWithHttp(req.url)
  THEN error_response(400, "Invalid URL format, must start with http/https")
  ELSE IF ~HasUserPath(req.url)
  THEN error_response(400, "URL must be a Douyin user profile URL containing /user/")
  ELSE IF GetCookiesRaises(req.cookie) THEN UnhandledResponse
  ELSE AfterExtraction(outcome, value, "Extraction failed: no works found")

\* the extraction is reached
ExtractionRuns(req) ==
  /\ Truthy(req.url) /\ StartsWithHttp(req.url)
  /\ req.endpoint = "user" => (HasUserPath(req.url) /\ ~GetCookiesRaises(req.cookie))

EnvInit ==
  /\ api_pc = "request"
  /\ api_req \in ApiRequests
  /\ api_extraction = "not_run"
  /\ api_resp = None

\* one request served from its arrival to its response
Serve(outcome, value) ==
  /\ api_pc = "request"
  /\ api_pc' = "responded"
  /\ api_extraction' = IF ExtractionRuns(api_req) THEN outcome ELSE "not_run"
  /\ api_resp' = IF api_req.endpoint = "media"
                 THEN MediaRoot(api_req, outcome, value)
                 ELSE UserRoot(api_req, outcome, value)
  /\ UNCHANGED api_req
  /\ UNCHANGED notEnv

EnvNext == \E outcome \in ExtractionOutcomes, value \in ExtractionResults : Serve(outcome, value)

EnvSpecInit == IdleButEnv /\ EnvInit

EnvSpec == EnvSpecInit /\ [][EnvNext]_vars

\* --------------------------------------------- claims on the endpoints
IsSuccessEnvelope(resp) ==
  /\ resp.shape = "envelope" /\ resp.code = 0
  /\ resp.message = "success" /\ resp.data # None

IsErrorEnvelope(resp) ==
  resp.shape = "envelope" /\ resp.code # 0 /\ resp.data = None

\* C22: every request that supplies a url is answered with the success
\* envelope or with the error envelope, and an extraction that raised or
\* returned null is answered with the error envelope.
C22_SuccessOrErrorEnvelope ==
  (api_pc = "responded" /\ Truthy(api_req.url)) =>
    /\ IsSuccessEnvelope(api_resp) \/ IsErrorEnvelope(api_resp)
    /\ api_extraction \in {"raised", "none"} => IsErrorEnvelope(api_resp)

\* ------------------------------------------------- _resolve_short_url
\* A URL is its host, whether its path holds /share/, and the content
\* segment of its path: /video/<id>, /note/<id> (id 0: no digits follow) or
\* neither.
ShareUrls ==
  [host : {"v.douyin.com", "www.douyin.com", "www.iesdouyin.com"}, share : BOOLEAN,
   kind : {"video", "note", "other"}, id : 0 .. MaxContentIds]

\* the Location header: for each of /video/ and /note/ the digits that
\* follow its first occurrence (0: the text does not match)
Locations == [video : 0 .. MaxContentIds, note : 0 .. MaxContentIds]

\* what happens on the network side of one call: a step raises, or the
\* response arrives, with a Location header or without one
NetOutcomes ==
  {[step |-> s, location |-> None] : s \in {"parse_raises", "request_raises", "response_raises"}}
    \cup {[step |-> "response", location |-> l] : l \in {None} \cup {Some(x) : x \in Locations}}

\* a bug variant of IsShortForm: the /share/ form is not recognised
IsShortFormHostOnly(url) == url.host = "v.douyin.com"

\* the negation of the test of line 404
IsShortForm(url) == url.host = "v.douyin.com" \/ url.share

CanonicalUrl(kind, id) == [host |-> "www.douyin.com", share |-> FALSE, kind |-> kind, id |-> id]

\* resp.getheader("Location") or "", then the two regular expressions
LocationOf(net) == IF net.location = None THEN [video |-> 0, note |-> 0] ELSE net.location[1]

\* the number of conn.request calls
RequestsOf(net) == IF net.step = "parse_raises" THEN 0 ELSE 1

\* the steps the try of lines 406-424 covers: urlparse, the connection and
\* its request, getresponse and the header
InTry(step) == step \in {"parse_raises", "request_raises", "response_raises"}

resolve_short_url(url, net) ==
  IF ~IsShortForm(url) THEN [ret |-> url, requests |-> 0]
  ELSE IF net.step # "response" /\ ~InTry(net.step) THEN [ret |-> None, requests |-> RequestsOf(net)]
  ELSE IF net.step # "response" THEN [ret |-> url, requests |-> RequestsOf(net)]
  ELSE LET location == LocationOf(net)
       IN [ret |-> IF location.video # 0 THEN CanonicalUrl("video", location.video)
                   ELSE IF location.note # 0 THEN CanonicalUrl("note", location.note)
                   ELSE url,
           requests |-> 1]

ResolveInit ==
  /\ rs_pc = "call"
  /\ rs_url \in ShareUrls
  /\ rs_net = None
  /\ rs_ret = None
  /\ rs_outcome = "pending"
  /\ http_requests = 0

\* one call; an exception of a step inside the try is swallowed by its
\* handler, any other one would leave the function
ResolveShortUrl(net) ==
  /\ rs_pc = "call"
  /\ rs_pc' = "done"
  /\ LET r == resolve_short_url(rs_url, net)
     IN /\ rs_ret' = Some(r.ret)
        /\ http_requests' = r.requests
  /\ rs_net' = IF IsShortForm(rs_url) THEN Some(net) ELSE None
  /\ rs_outcome' = "returned"
  /\ UNCHANGED rs_url
  /\ UNCHANGED notResolve

ResolveNext == \E net \in NetOutcomes : ResolveShortUrl(net)

ResolveSpecInit == IdleButResolve /\ ResolveInit

ResolveSpec == ResolveSpecInit /\ [][ResolveNext]_vars

\* ---------------------------------------- claims on _resolve_short_url
\* the network answered with a Location header that holds a content id
GotContentId(net) ==
  /\ net.step = "response"
  /\ LocationOf(net).video # 0 \/ LocationOf(net).note # 0

\* C23: _resolve_short_url always returns; a URL that is neither short nor
\* share form comes back unchanged without any request; a short or share
\* URL costs at most one request and comes back as the canonical video or
\* note URL of the id in the Location header, or unchanged when a step
\* failed or the header holds no id.
C23_ResolveNeverRaisesOneRequest ==
  rs_pc = "done" =>
    /\ rs_outcome = "returned"
    /\ ~(rs_url.host = "v.douyin.com" \/ rs_url.share) =>
         (rs_ret = Some(rs_url) /\ http_requests = 0 /\ rs_net = None)
    /\ (rs_url.host = "v.douyin.com" \/ rs_url.share) =>
         /\ http_requests <= 1
         /\ rs_net # None
         /\ GotContentId(rs_net[1]) =>
              /\ http_requests = 1
              /\ \E kind \in {"video", "note"} :
                   /\ LocationOf(rs_net[1])[kind] # 0
                   /\ rs_ret = Some(CanonicalUrl(kind, LocationOf(rs_net[1])[kind]))
         /\ ~GotContentId(rs_net[1]) => rs_ret = Some(rs_url)

\* a share-form URL on the main host was resolved to a canonical note URL
C23_Witness ==
  /\ rs_pc = "done" /\ rs_url.host = "www.douyin.com" /\ rs_url.share
  /\ http_requests = 1
  /\ rs_ret = Some(CanonicalUrl("note", 2))

\* --------------------------- VideoStrategy: the wait around the navigation
\* a network response: whether its URL and status satisfy the predicate of
\* the wait, and the payload it carries
NetResponses == [match : BOOLEAN, payload : 1 .. NumPayloads]

\* a bug variant of Listening: the wait takes responses only once page.goto has returned
ListeningAfterGoto(w, at) == w = "pending" /\ at = "exit"

\* the wait takes responses from the moment expect_response has registered
\* it until it is resolved, times out or is cancelled
Listening(w, at) == w = "pending"

WaitInit ==
  /\ w_pc = "register"
  /\ waiter = "unregistered"
  /\ w_value = None
  /\ arrived = << >>
  /\ w_result = "pending"

\* page.expect_response(...): entering the `with` registers the wait
RegisterWait ==
  /\ w_pc = "register"
  /\ waiter' = "pending"
  /\ w_pc' = "goto"
  /\ UNCHANGED << w_value, arrived, w_result >>
  /\ UNCHANGED notWait

\* page.goto is called inside the block
IssueGoto ==
  /\ w_pc = "goto"
  /\ w_pc' = "navigating"
  /\ UNCHANGED << waiter, w_value, arrived, w_result >>
  /\ UNCHANGED notWait

\* a response arrives once the navigation has started
ResponseArrives(resp) ==
  /\ w_pc \in {"navigating", "exit"}
  /\ Len(arrived) < MaxResponses
  /\ arrived' = Append(arrived, resp)
  /\ IF Listening(waiter, w_pc) /\ resp.match
     THEN waiter' = "resolved" /\ w_value' = Some(resp)
     ELSE UNCHANGED << waiter, w_value >>
  /\ UNCHANGED << w_pc, w_result >>
  /\ UNCHANGED notWait

\* the 15 s of the wait run out
WaitTimesOut ==
  /\ w_pc \in {"navigating", "exit"}
  /\ waiter = "pending"
  /\ waiter' = "timed_out"
  /\ UNCHANGED << w_pc, w_value, arrived, w_result >>
  /\ UNCHANGED notWait

\* page.goto returns at the commit of the navigation
GotoReturns ==
  /\ w_pc = "navigating"
  /\ w_pc' = "exit"
  /\ UNCHANGED << waiter, w_value, arrived, w_result >>
  /\ UNCHANGED notWait

\* page.goto raises: the block is left with the exception, the wait is dropped
GotoRaises ==
  /\ w_pc = "navigating"
  /\ w_pc' = "done"
  /\ waiter' = IF waiter = "pending" THEN "cancelled" ELSE waiter
  /\ w_result' = "raised"
  /\ UNCHANGED << w_value, arrived >>
  /\ UNCHANGED notWait

\* the end of the block waits for the wait to settle; resp_info.value
BlockExits ==
  /\ w_pc = "exit"
  /\ waiter \in {"resolved", "timed_out"}
  /\ w_pc' = "done"
  /\ w_result' = IF waiter = "resolved" THEN "value" ELSE "raised"
  /\ UNCHANGED << waiter, w_value, arrived >>
  /\ UNCHANGED notWait

WaitNext ==
  \/ RegisterWait
  \/ IssueGoto
  \/ \E resp \in NetResponses : ResponseArrives(resp)
  \/ WaitTimesOut
  \/ GotoReturns
  \/ GotoRaises
  \/ BlockExits

WaitSpecInit == IdleButWait /\ WaitInit

WaitSpec == WaitSpecInit /\ [][WaitNext]_vars

\* ------------------------------------------ claims on the interception
Matching(rs) == { i \in DOMAIN rs : rs[i].match }

FirstMatching(rs) == rs[CHOOSE i \in Matching(rs) : \A j \in Matching(rs) : i <= j]

\* C24: the wait is registered before the navigation is issued, and a
\* matching response that arrives after the navigation started, while the
\* wait has neither timed out nor been dropped, resolves the wait: a
\* pending wait has missed no matching response, and a resolved wait holds
\* the first matching response.
C24_WaitRegisteredBeforeNavigation ==
  /\ w_pc \in {"navigating", "exit", "done"} => waiter # "unregistered"
  /\ waiter = "unregistered" => arrived = << >>
  /\ waiter = "pending" => Matching(arrived) = {}
  /\ waiter = "resolved" =>
       (Matching(arrived) # {} /\ w_value = Some(FirstMatching(arrived)))
  /\ w_result = "value" => waiter = "resolved"

\* a matching response arrived during the initial load, before page.goto
\* returned, and the wait was resolved with it
C24_Witness ==
  /\ w_pc = "navigating"
  /\ Len(arrived) = 1 /\ arrived[1].match
  /\ waiter = "resolved" /\ w_value = Some(arrived[1])

\* ------------------------ the two note strategies under one session
\* what the session does for a note page: the value extract_note_from_api
\* returns, and the DOM of the page (None: querying it raises)
Sessions ==
  [api_result : NoteApiOutcomes,
   dom : {None} \cup { Some(x) : x \in [urls : { o \in UrlOrders : Len(o) <= MaxSessionUrls },
                                         sources : { l \in SourceLists : Len(l) <= MaxSessionUrls }] }]

\* `if api_result and api_result.get("items")` and the result built from it
ApiNoteResult(api_result) ==
  IF api_result # None /\ api_result[1] # << >>
  THEN Some(ImagesResult(api_result[1]))
  ELSE None

\* the `else` of the note branch: the result built from the DOM
DomNoteResult(dom) ==
  IF dom = None THEN None
  ELSE LET its == DomItems(extract_images_from_dom(dom[1].urls),
                           extract_videos_from_dom(dom[1].sources))
       IN IF its # << >> THEN Some(ImagesResult(its)) ELSE None

\* content_type == 'note', after the navigation
NoteStrategyResult(s) ==
  IF ApiNoteResult(s.api_result) # None THEN ApiNoteResult(s.api_result)
  ELSE DomNoteResult(s.dom)

\* unknown type, final URL /note/<id>
UnknownNoteResult(s) == ApiNoteResult(s.api_result)

EquivInit ==
  /\ eq_pc = [b \in {"note", "unknown"} |-> "call"]
  /\ session \in Sessions
  /\ note_run = None
  /\ unknown_run = None

RunNoteStrategy ==
  /\ eq_pc["note"] = "call"
  /\ eq_pc' = [eq_pc EXCEPT !["note"] = "done"]
  /\ note_run' = NoteStrategyResult(session)
  /\ UNCHANGED << session, unknown_run >>
  /\ UNCHANGED notEquiv

RunUnknownNote ==
  /\ eq_pc["unknown"] = "call"
  /\ eq_pc' = [eq_pc EXCEPT !["unknown"] = "done"]
  /\ unknown_run' = UnknownNoteResult(session)
  /\ UNCHANGED << session, note_run >>
  /\ UNCHANGED notEquiv

EquivNext == RunNoteStrategy \/ RunUnknownNote

EquivSpecInit == IdleButEquiv /\ EquivInit

EquivSpec == EquivSpecInit /\ [][EquivNext]_vars

\* ------------------------------------- claims on the two note strategies
\* C27: on a final URL /note/<id> the unknown-type path returns what the
\* note branch returns for the same session, the DOM fallback included.
C27_UnknownNoteSameAsNoteStrategy ==
  (eq_pc # << >> /\ eq_pc["note"] = "done" /\ eq_pc["unknown"] = "done") =>
    unknown_run = note_run

\* ------------------------- unknown type: the polling of the shared slot
\* the response handler: the first detail with a playable URL fills the slot
handle_response(slot, d) == IF slot # None THEN slot ELSE parse_video_detail(d)

\* a bug variant of KeepPolling: the loop has no break
KeepPollingIgnoresSlot(i, slot) == i < MAX_POLLS

\* `for _ in range(10): if found_data["url"]: break`
KeepPolling(i, slot) == i < MAX_POLLS /\ slot = None

PollInit ==
  /\ p_pc = "goto"
  /\ p_final = "other"
  /\ found_data = None
  /\ poll_i = 0
  /\ waited_ms = 0
  /\ poll_calls = 0
  /\ poll_result = None

\* page.on("response", ...) and page.goto: the handler runs for the detail
\* responses that arrive during the navigation (d = None: none arrived)
PollGoto(ok, final, d) ==
  /\ p_pc = "goto"
  /\ found_data' = handle_response(found_data, d)
  /\ p_final' = IF ok THEN final ELSE p_final
  /\ p_pc' = IF ok /\ final \in {"/video/id", "/video/"} THEN "poll" ELSE "done"
  /\ UNCHANGED << poll_i, waited_ms, poll_calls, poll_result >>
  /\ UNCHANGED notPoll

\* one iteration that does not break: page.wait_for_timeout(500), during
\* which the handler may run; an exception of the wait ends the path
PollWait(ok, d) ==
  /\ p_pc = "poll"
  /\ KeepPolling(poll_i, found_data)
  /\ poll_i' = poll_i + 1
  /\ waited_ms' = waited_ms + POLL_MS
  /\ found_data' = handle_response(found_data, d)
  /\ p_pc' = IF ok THEN "poll" ELSE "done"
  /\ UNCHANGED << p_final, poll_calls, poll_result >>
  /\ UNCHANGED notPoll

\* the loop ends: by its break or after its last iteration
PollEnd ==
  /\ p_pc = "poll"
  /\ ~KeepPolling(poll_i, found_data)
  /\ p_pc' = "after"
  /\ UNCHANGED << p_final, found_data, poll_i, waited_ms, poll_calls, poll_result >>
  /\ UNCHANGED notPoll

\* after the loop: the result from the slot, or one direct request when the
\* final URL carries an id; d is what _call_detail_api returns
PollAfter(d) ==
  /\ p_pc = "after"
  /\ IF found_data # None
     THEN poll_result' = found_data /\ UNCHANGED poll_calls
     ELSE IF p_final = "/video/id"
     THEN /\ poll_calls' = poll_calls + 1
          /\ poll_result' = IF d # None THEN parse_video_detail(d) ELSE None
     ELSE UNCHANGED << poll_calls, poll_result >>
  /\ p_pc' = "done"
  /\ UNCHANGED << p_final, found_data, poll_i, waited_ms >>
  /\ UNCHANGED notPoll

PollNext ==
  \/ \E ok \in BOOLEAN, final \in {"/video/id", "/video/", "other"}, d \in MediaDetails :
       PollGoto(ok, final, d)
  \/ \E ok \in BOOLEAN, d \in MediaDetails : PollWait(ok, d)
  \/ PollEnd
  \/ \E d \in MediaDetails : PollAfter(d)

PollSpecInit == IdleButPoll /\ PollInit

PollSpec == PollSpecInit /\ [][PollNext]_vars

CoverLists == { << >>, << "cover_a", "cover_b" >> }

\* a response as the handler sees it: whether its URL and status are those
\* of a detail response, whether its JSON holds "aweme_detail", the detail
\* (None: null, or without video.bit_rate), its cover list and its metadata
HandlerResponses ==
  [match : BOOLEAN, has_detail : BOOLEAN, detail : MediaDetails,
   cover : CoverLists, meta : 1 .. NumPayloads]

\* found_data as get_douyin_media creates it
EmptySlot == [url |-> None, type |-> None, cover_url |-> None, metadata |-> None]

\* `cover_urls[0] if cover_urls else ""`
CoverUrl(cover_urls) == IF cover_urls # << >> THEN cover_urls[1] ELSE ""

\* the `for br in bit_rate_list` loop of the handler from entry i on
RECURSIVE HandlerBestOf(_, _, _)
HandlerBestOf(bit_rate_list, i, best) ==
  IF i > Len(bit_rate_list) THEN best
  ELSE LET br == bit_rate_list[i]
           resolution == br.width * br.height
           skipped == br.format # "mp4" \/ br.width = 0
           better == \/ resolution > best.resolution
                     \/ resolution = best.resolution /\ br.bit_rate > best.bitrate
       IN HandlerBestOf(bit_rate_list, i + 1,
                        IF ~skipped /\ better /\ br.url_list # << >>
                        THEN [url |-> select_best_url(br.url_list, "douyinvod.com"),
                              resolution |-> resolution, bitrate |-> br.bit_rate]
                        ELSE best)

\* a bug variant of HandlerFill: the default play_addr is never consulted
HandlerFillNoDefault(s, resp) ==
  LET best == HandlerBestOf(resp.detail[1].bit_rate, 1,
                            [url |-> None, resolution |-> 0, bitrate |-> 0])
  IN IF best.url # None
     THEN [url |-> best.url, type |-> Some("video"),
           cover_url |-> Some(CoverUrl(resp.cover)), metadata |-> Some(resp.meta)]
     ELSE [s EXCEPT !.metadata = Some(resp.meta)]

\* the body of the handler for a detail that holds video.bit_rate: the
\* metadata first, then the best URL or else the first default URL
HandlerFill(s, resp) ==
  LET best == HandlerBestOf(resp.detail[1].bit_rate, 1,
                            [url |-> None, resolution |-> 0, bitrate |-> 0])
      play_addr == resp.detail[1].play_addr
      found == [type |-> Some("video"), cover_url |-> Some(CoverUrl(resp.cover)),
                metadata |-> Some(resp.meta)]
  IN IF best.url # None THEN found @@ [url |-> best.url]
     ELSE IF play_addr # << >> THEN found @@ [url |-> Some(play_addr[1])]
     ELSE [s EXCEPT !.metadata = Some(resp.meta)]

\* a bug variant of AlreadyFound: the handler never skips
AlreadyFoundNever(s) == FALSE

\* `if found_data.get("url"): return`
AlreadyFound(s) == s.url # None

\* handle_response
HandlerSlot(s, resp) ==
  IF ~resp.match \/ ~resp.has_detail THEN s
  ELSE IF AlreadyFound(s) THEN s
  ELSE IF resp.detail = None THEN s
  ELSE HandlerFill(s, resp)

ListenInit == f_slot = EmptySlot /\ handled = 0 /\ last_resp = None

\* a response arrives and the handler runs for it
HandleResponse(resp) ==
  /\ handled < MaxHandled
  /\ handled' = handled + 1
  /\ f_slot' = HandlerSlot(f_slot, resp)
  /\ last_resp' = Some(resp)
  /\ UNCHANGED notListen

ListenNext == \E resp \in HandlerResponses : HandleResponse(resp)

ListenSpecInit == IdleButListen /\ ListenInit

ListenSpec == ListenSpecInit /\ [][ListenNext]_vars

\* ------------------------------------------------ claims on the handler
\* the handler has just run for a response
Handled == handled' = handled + 1

\* the item _parse_video_detail returns for the detail of a response
ParsedItem(resp) ==
  LET r == parse_video_detail(resp.detail)
  IN IF r = None THEN None
     ELSE Some([video_url |-> r[1].items[1].video_url, cover_url |-> CoverUrl(resp.cover)])

\* C31: once the url of the slot is set, no later response changes the
\* url, type, cover_url or metadata of the slot.
C31_FirstPayloadKept == [][(Handled /\ f_slot.url # None) => f_slot' = f_slot]_vars

\* the slot is filled and the handler has since run for a detail response
\* that carries another playable URL and other metadata
C31_Witness ==
  /\ handled = 2 /\ f_slot.url # None
  /\ last_resp[1].match /\ last_resp[1].has_detail
  /\ ParsedItem(last_resp[1]) # None
  /\ Some(ParsedItem(last_resp[1])[1].video_url) # f_slot.url
  /\ Some(last_resp[1].meta) # f_slot.metadata

LacksBitRate(resp) == ~resp.has_detail \/ resp.detail = None

SetOf(urls) == { urls[i] : i \in 1 .. Len(urls) }
IterationOrders(urls) == { o \in UrlOrders : SetOf(o) = SetOf(urls) }

OrderInit ==
  /\ ord_pc = "call"
  /\ dom_srcs \in SeqsUpTo(DomUrls, MaxUrls)
  /\ iter_order = << >>
  /\ ord_images = << >>

ExtractImagesFromPage ==
  /\ ord_pc = "call"
  /\ \E o \in IterationOrders(dom_srcs) :
       /\ iter_order' = o
       /\ ord_images' = extract_images_from_dom(o)
  /\ ord_pc' = "done"
  /\ UNCHANGED << dom_srcs, notOrder >>

OrderNext == ExtractImagesFromPage

OrderSpecInit == IdleButOrder /\ OrderInit

OrderSpec == OrderSpecInit /\ [][OrderNext]_vars

\* ---------------------------------------------- claims on the page order
\* the content images of the page, one per base path, in the order the DOM
\* first shows them
FirstEncountered == extract_images_from_dom(dom_srcs)

\* C35: extract_images_from_dom is order-preserving: the returned URLs are in
\* the order in which the DOM first shows them, and the URL kept for a base
\* path is the first one the DOM shows.
C35_ReturnedInDomOrder ==
  ord_pc = "done" => ord_images = FirstEncountered

\* ==================================================== cookie cache
\* `root` is a coroutine and calls _get_cookies without awaiting anything, so
\* the calls of two requests never interleave.  The cookie arguments are
\* those of the user-works endpoint; "cookies.json" names a file whose
\* content can change while the server runs.
CachedArgs == { a \in CookieArgs : Truthy(a) }

\* what load_cookies returns for the argument: the parsed raw cookie string,
\* or the cookies of the file (none when the file is empty)
LoadedCookies(cookie_arg, content) ==
  IF cookie_arg = "cookies.json"
  THEN (IF content = 0 THEN << >> ELSE << content >>)
  ELSE << NumCookieValues + 1 >>

\* a bug variant of CacheMiss: `if not _cookie_cache.get(cookie_arg)`
CacheMissWhenFalsy(cookie_arg, cache) ==
  cache[cookie_arg] = None \/ cache[cookie_arg] = Some(<< >>)

\* `if cookie_arg not in _cookie_cache`
CacheMiss(cookie_arg, cache) == cache[cookie_arg] = None

CacheInit ==
  /\ cookie_cache = [a \in CachedArgs |-> None]
  /\ load_calls = [a \in CachedArgs |-> 0]
  /\ load_returns = [a \in CachedArgs |-> 0]
  /\ file_content \in 0 .. NumCookieValues
  /\ served = 0
  /\ last_arg = "absent"
  /\ last_got = Some(<< >>)
  /\ last_cached = None

\* _get_cookies(cookie_arg), as called by `root` for a user-works request
GetCookies(cookie_arg) ==
  /\ served < MaxCacheRequests
  /\ served' = served + 1
  /\ last_arg' = cookie_arg
  /\ IF ~Truthy(cookie_arg)
     THEN /\ last_got' = Some(<< >>)
          /\ last_cached' = None
          /\ UNCHANGED << cookie_cache, load_calls, load_returns >>
     ELSE /\ last_cached' = cookie_cache[cookie_arg]
          /\ IF CacheMiss(cookie_arg, cookie_cache)
             THEN /\ load_calls' = [load_calls EXCEPT ![cookie_arg] = @ + 1]
                  /\ IF LoadCookiesRaises(cookie_arg)
                     THEN /\ last_got' = None
                          /\ UNCHANGED << cookie_cache, load_returns >>
                     ELSE LET cookies == LoadedCookies(cookie_arg, file_content)
                          IN /\ load_returns' = [load_returns EXCEPT ![cookie_arg] = @ + 1]
                             /\ cookie_cache' = [cookie_cache EXCEPT ![cookie_arg] = Some(cookies)]
                             /\ last_got' = Some(cookies)
             ELSE /\ last_got' = cookie_cache[cookie_arg]
                  /\ UNCHANGED << cookie_cache, load_calls, load_returns >>
  /\ UNCHANGED << file_content, notCache >>

\* the cookie file is rewritten (a new --login export, or it is emptied)
RewriteCookieFile(content) ==
  /\ content # file_content
  /\ file_content' = content
  /\ UNCHANGED << cookie_cache, load_calls, load_returns, served, last_arg, last_got,
                  last_cached, notCache >>

CacheNext ==
  \/ \E cookie_arg \in CookieArgs : GetCookies(cookie_arg)
  \/ \E content \in 0 .. NumCookieValues : RewriteCookieFile(content)

CacheSpecInit == IdleButCache /\ CacheInit

CacheSpec == CacheSpecInit /\ [][CacheNext]_vars

\* --------------------------------------------- claims on the cookie cache
Served == served' = served + 1

\* no request removes or replaces a cache entry
EntriesKept ==
  [][\A a \in CachedArgs : cookie_cache[a] # None => cookie_cache'[a] = cookie_cache[a]]_vars

\* a request whose identifier is cached receives the cached value, and
\* load_cookies is not invoked for it
HitsServedFromCache ==
  [][\A a \in CachedArgs :
       (Served /\ last_arg' = a /\ cookie_cache[a] # None) =>
         /\ last_got' = cookie_cache[a]
         /\ load_calls' = load_calls]_vars

\* C36 as stated: load_cookies is invoked at most once per distinct non-empty
\* cookie-source identifier, later requests with the identifier receive the
\* cached value, and no request removes or replaces a cache entry.
C36_InvokedAtMostOnce ==
  /\ [](\A a \in CachedArgs : load_calls[a] <= 1)
  /\ HitsServedFromCache
  /\ EntriesKept

\* C36: load_cookies returns at most once per distinct non-empty
\* cookie-source identifier, and the value it returned is cached; an
\* invocation that raises caches nothing, so the next request with the same
\* identifier invokes it again.  Every request whose identifier is cached
\* receives the cached value without an invocation, and no request removes
\* or replaces a cache entry.
C36_LoadedAtMostOnce ==
  /\ [](\A a \in CachedArgs :
          /\ load_returns[a] <= 1
          /\ (load_returns[a] = 1) = (cookie_cache[a] # None)
          /\ (cookie_cache[a] = None) => load_calls[a] <= served)
  /\ [][\A a \in CachedArgs :
          (Served /\ last_arg' = a /\ cookie_cache[a] = None) =>
            /\ load_calls'[a] = load_calls[a] + 1
            /\ (cookie_cache'[a] = None) = (last_got' = None)]_vars
  /\ HitsServedFromCache
  /\ EntriesKept

\* the file was loaded once, rewritten, and requested again: the request got
\* the list cached by the first; the unreadable file was tried twice
C36_Witness ==
  /\ last_arg = "cookies.json"
  /\ last_cached # None
  /\ last_got = last_cached
  /\ last_got # Some(LoadedCookies("cookies.json", file_content))
  /\ load_calls["cookies.json"] = 1
  /\ load_calls["broken.json"] = 2
  /\ load_returns["broken.json"] = 0

\* ============================================== BrowserPool, one caller
\* One caller at a time calls get_browser and shutdown, so each call runs to
\* its end before the next begins; the browser process can lose its
\* connection between calls.  A launch is named by its number.

\* a bug variant of Reusable: the pooled browser is never reused
ReusableNever(browser, connected) == FALSE

\* `cls._browser and cls._browser.is_connected()`
Reusable(browser, connected) == browser # 0 /\ connected

LifeInit ==
  /\ bp_lock = FALSE
  /\ bp_playwright = 0 /\ bp_browser = 0
  /\ bp_connected = FALSE
  /\ bp_launched = 0
  /\ bp_closed = {}
  /\ bp_calls = 0
  /\ bp_got = << 0, 0 >>
  /\ bp_op = "none"
  /\ bp_swallowed = 0

\* BrowserPool.get_browser()
GetBrowser ==
  /\ bp_calls < MaxPoolCalls
  /\ bp_calls' = bp_calls + 1
  /\ bp_op' = "get_browser"
  /\ IF Reusable(bp_browser, bp_connected)
     THEN /\ bp_got' = << bp_playwright, bp_browser >>
          /\ UNCHANGED << bp_lock, bp_playwright, bp_browser, bp_connected, bp_launched >>
     ELSE /\ bp_lock' = TRUE
          /\ bp_launched' = bp_launched + 1
          /\ bp_playwright' = bp_launched + 1
          /\ bp_browser' = bp_launched + 1
          /\ bp_connected' = TRUE
          /\ bp_got' = << bp_launched + 1, bp_launched + 1 >>
  /\ UNCHANGED << bp_closed, bp_swallowed, notLife >>

\* BrowserPool.shutdown(): close() and stop() may raise, what they raise is
\* swallowed and the attributes are cleared either way
Shutdown ==
  /\ \E close_raises \in (IF bp_browser # 0 THEN BOOLEAN ELSE {FALSE}),
        stop_raises \in (IF bp_playwright # 0 THEN BOOLEAN ELSE {FALSE}) :
       bp_swallowed' = (IF close_raises THEN 1 ELSE 0) + (IF stop_raises THEN 1 ELSE 0)
  /\ bp_lock' = TRUE
  /\ bp_closed' = IF bp_browser # 0 THEN bp_closed \cup {bp_browser} ELSE bp_closed
  /\ bp_browser' = 0
  /\ bp_playwright' = 0
  /\ bp_connected' = FALSE
  /\ bp_op' = "shutdown"
  /\ UNCHANGED << bp_launched, bp_calls, bp_got, notLife >>

\* the browser process dies or its connection drops
Disconnect ==
  /\ bp_browser # 0 /\ bp_connected
  /\ bp_connected' = FALSE
  /\ bp_closed' = bp_closed \cup {bp_browser}
  /\ bp_op' = "disconnect"
  /\ UNCHANGED << bp_lock, bp_playwright, bp_browser, bp_launched, bp_calls, bp_got,
                  bp_swallowed, notLife >>

LifeNext == GetBrowser \/ Shutdown \/ Disconnect

LifeSpecInit == IdleButLife /\ LifeInit

LifeSpec == LifeSpecInit /\ [][LifeNext]_vars

\* -------------------------------------------- claims on the browser pool
\* C38: successive get_browser calls with no shutdown or disconnect between
\* them return the same browser and launch once; shutdown clears both the
\* browser and the playwright handle, and the next get_browser launches a
\* fresh browser instead of returning the closed one.
C38_OnePersistentBrowser ==
  /\ [][(bp_op = "get_browser" /\ bp_calls' = bp_calls + 1) =>
          (bp_got' = bp_got /\ bp_launched' = bp_launched)]_vars
  /\ [][(bp_calls = 0 /\ bp_calls' = 1) => bp_launched' = 1]_vars
  /\ [](bp_op = "shutdown" => (bp_browser = 0 /\ bp_playwright = 0))
  /\ [][(bp_op = "shutdown" /\ bp_calls' = bp_calls + 1) =>
          /\ bp_launched' = bp_launched + 1
          /\ bp_got' = << bp_launched', bp_launched' >>
          /\ bp_got'[2] \notin bp_closed'
          /\ bp_connected']_vars
  /\ [](bp_op = "get_browser" => (bp_got = << bp_playwright, bp_browser >> /\ bp_connected))

\* two calls gave the first browser, a shutdown whose close() raised closed
\* it, and the next call launched and returned the second
C38_Witness ==
  /\ bp_calls = 3 /\ bp_op = "get_browser"
  /\ bp_launched = 2
  /\ bp_closed = {1}
  /\ bp_swallowed > 0
  /\ bp_got = << 2, 2 >>
  /\ bp_connected
====
